---- MODULE Spec2Model ----
(***************************************************************************)
(* A model of the orchestration core of the call-analytics ML service:     *)
(*   ml-service/src/services/ml_pipeline.py       MLPipeline               *)
(*   ml-service/src/services/llm_orchestrator.py  LLMOrchestrator          *)
(*   ml-service/src/services/ollama_service.py    OllamaService            *)
(* Coroutines are modelled at the granularity of asyncio: one action is    *)
(* the code a coroutine runs between two awaits of a backend call.         *)
(***************************************************************************)
EXTENDS Integers, Sequences, FiniteSets, TLC

VARIABLES
    config,         \* MLPipeline.config (MLPipelineConfig)
    pstats,         \* MLPipeline.stats
    call_data,      \* process_call: the call_data argument
    pc,             \* process_call: position of the coroutine
    tasks,          \* process_call: the coroutines handed to asyncio.gather
    results,        \* process_call: local dict results
    errors,         \* process_call: local list errors
    vector_data,    \* process_call: the record passed to add_transcription
    outcome,        \* process_call: the returned ProcessingResult, or a raise
    stages,         \* observation: what the backends answered, per stage
    calls_data,     \* process_batch: the calls_data argument
    bpc,            \* process_batch: position of the coroutine
    semaphore,      \* process_batch: value of the local asyncio.Semaphore
    btasks,         \* process_batch: state of each process_single_with_semaphore
    bresults,       \* process_batch: what gather collected per task
    boutcome,       \* process_batch: the returned list, or a raise
    srequest,       \* summarize_call: the arguments
    spc,            \* summarize_call: position of the coroutine
    sadapter,       \* summarize_call: what OllamaService.summarize_call did
    soutcome,       \* summarize_call: the returned dict, or a raise
    backend,        \* observation: what the LLM backend answered
    ostats,         \* LLMOrchestrator.stats
    grequest,       \* generate_response: the prompt, and use_ollama_for_hebrew
    gpc,            \* generate_response: position of the coroutine
    gindex,         \* generate_response: index into services_to_try
    gerrors,        \* generate_response: local list errors
    gactive,        \* observation: adapters with a call in flight
    gattempts,      \* observation: adapters attempted, in order
    goutcome,       \* generate_response: the returned dict, or a raise
    gtimeout,       \* OLLAMA_TIMEOUT, and the timeout of the last wait_for
    gstats,         \* get_stats: the last call's returned dict, or a raise
    cache,          \* InferenceCache.cache, in dict order: key, response, timestamp
    max_size,       \* InferenceCache.max_size
    now,            \* the clock read by datetime.now()
    cache_op,       \* observation: the last cache operation and what it returned
    cache_enabled,          \* OllamaService: self.cache is an InferenceCache
    hebrew_classifications, \* OllamaService.hebrew_classifications
    request_count,          \* OllamaService.request_count
    ocalls,                 \* OllamaService.generate_response: the calls
    olast,                  \* observation: the call that ended last
    outdated,               \* observation: ids of the responses that were
                            \* stored before the availability last changed
    cache_embeddings,       \* EmbeddingService.config.cache_embeddings
    model_loaded,           \* EmbeddingService.model_loaded
    embedding_cache,        \* EmbeddingService.embedding_cache, oldest first
    faiss_index,            \* EmbeddingService.faiss_index
    indexed_texts,          \* EmbeddingService.indexed_texts
    index_metadata,         \* EmbeddingService.index_metadata
    elast,                  \* observation: the last generate_batch_embeddings
    vector_results,         \* _merge_search_results: the vector-store hits
    faiss_results,          \* _merge_search_results: the similarity-index hits
    merged,                 \* _merge_search_results: the returned list
    mpc,                    \* _merge_search_results: called or returned
    isearch,                \* intelligent_search: position, locals, return
    health,                 \* MLPipeline.health_check: position and status
    schema,                 \* the vector store's schema and the create_schema calls
    insert,                 \* add_transcription: position, requests, return
    adaptive,               \* the adaptive timeout computed for a prompt
    sem,                    \* the adapters' semaphores and their requests
    hf,                     \* HuggingFaceService.generate_response: the payload
    cleaned,                \* _validate_and_clean_response: input and return
    racers,                 \* concurrent generate_response calls of one key
    loader,                 \* EmbeddingService: concurrent model loads
    tenant                  \* intelligent_search for a customer: stores, hits

callVars  == <<call_data, pc, tasks, results, errors, vector_data, outcome, stages>>
batchVars == <<calls_data, bpc, semaphore, btasks, bresults, boutcome>>
summVars  == <<srequest, spc, sadapter, soutcome, backend>>
genVars   == <<grequest, gpc, gindex, gerrors, gactive, gattempts, goutcome,
               gtimeout, gstats>>
cacheVars == <<cache, max_size, now, cache_op>>
ollamaVars == <<cache_enabled, hebrew_classifications, request_count, ocalls,
                olast, outdated>>
embVars == <<cache_embeddings, model_loaded, embedding_cache, faiss_index,
             indexed_texts, index_metadata, elast>>
mergeVars == <<vector_results, faiss_results, merged, mpc>>
adapterVars == <<hf, cleaned, racers, loader, tenant>>
opsVars == <<isearch, health, schema, insert, adaptive, sem, adapterVars>>
serviceVars == <<cacheVars, ollamaVars, embVars, mergeVars, opsVars>>
coreVars == <<config, pstats, ostats, callVars, batchVars, summVars, genVars>>
storeVars == <<cacheVars, ollamaVars, embVars, mergeVars, adapterVars>>
restVars == <<coreVars, cacheVars, ollamaVars, embVars, mergeVars,
              isearch, health, schema, insert, adaptive, sem, tenant>>
vars == <<config, pstats, callVars, batchVars, summVars, genVars, ostats,
          serviceVars>>

(***************************************************************************)
(* Python values                                                           *)
(***************************************************************************)
NULL == "None"

\* dict.get(key, default)
Get(d, k, default) == IF k \in DOMAIN d THEN d[k] ELSE default

\* d[key] = value
Put(d, k, v) == [x \in DOMAIN d \cup {k} |-> IF x = k THEN v ELSE d[x]]

\* {}
EmptyDict == [x \in {} |-> NULL]

\* len(d)
DictLen(d) == Cardinality(DOMAIN d)

(***************************************************************************)
(* Bounds of the model                                                     *)
(***************************************************************************)
\* longest transcription handed to summarize_call
MaxTextLen == 202
\* number of calls of one batch
MaxBatch == 3
\* largest PIPELINE_BATCH_SIZE
MaxBatchSize == 2

\* the fallback summary keeps this many characters of the transcription
FallbackChars == 200

\* a text is the sequence of its characters; the character at position i is
\* written i, so that a prefix of a text is recognisable as such
Text(n) == [i \in 1..n |-> i]
Ellipsis == <<0, 0, 0>>

\* transcription[:200] + "..." if len(transcription) > 200 else transcription
Truncate(transcription) ==
    IF Len(transcription) > FallbackChars
    THEN SubSeq(transcription, 1, FallbackChars) \o Ellipsis
    ELSE transcription

(***************************************************************************)
(* The LLM backend and the local adapter, OllamaService                    *)
(***************************************************************************)
\* summaries a model may produce: a complete one, and one that leaves out
\* the sentiment, the products and the key points
FullSummary ==
    [summary |-> "text", sentiment |-> "positive",
     products_mentioned |-> <<"router">>, key_points |-> <<"point">>]
BareSummary == [summary |-> "text"]
SummaryDicts == {FullSummary, BareSummary}

\* what POST /api/generate can do: answer 200 with a body that is a JSON
\* object, a JSON object inside other text, JSON that is no object, or no
\* JSON at all; answer another status; refuse the connection; time out
OkReplies ==
    [kind : {"json", "wrapped_json"}, data : SummaryDicts]
        \cup {[kind |-> "non_object", data |-> EmptyDict],
              [kind |-> "no_json", data |-> EmptyDict]}
FailReplies ==
    {[kind |-> k, data |-> EmptyDict] : k \in {"http_error", "conn_error", "timeout"}}
Replies == OkReplies \cup FailReplies
NoReply == [kind |-> "none", data |-> EmptyDict]
Unavailable == {"conn_error", "timeout"}

\* the model names the adapter is configured with: HEBREW_MODEL for
\* self.hebrew_model, DEFAULT_MODEL for self.config.model_name
HebrewModel == "HEBREW_MODEL"
DefaultModel == "DEFAULT_MODEL"

\* OllamaService.generate_response: an LLMResponse for a 200, an exception
\* for everything else; model_name = self.hebrew_model whatever the prompt
OllamaGenerate(reply) ==
    IF reply \in OkReplies
    THEN [kind |-> "return", content |-> reply, model |-> HebrewModel]
    ELSE [kind |-> "raise", error |-> reply.kind]

\* the except branch of OllamaService.summarize_call
OllamaSummarizeFailure(transcription, error) ==
    [kind |-> "return",
     value |-> [success |-> FALSE, error |-> error,
                fallback_summary |-> Truncate(transcription)]]

\* OllamaService.summarize_call from the return of generate_response on:
\* json.loads of the sanitized content, then of the first {...} span
OllamaSummarizeParse(transcription, gen) ==
    IF gen.kind = "raise" THEN OllamaSummarizeFailure(transcription, gen.error)
    ELSE IF gen.content.kind \in {"json", "wrapped_json"}
    THEN [kind |-> "return",
          value |-> [success |-> TRUE, summary |-> gen.content.data,
                     callId |-> NULL]]
    ELSE IF gen.content.kind = "non_object"
    THEN OllamaSummarizeFailure(transcription, "AttributeError")
    ELSE OllamaSummarizeFailure(transcription, "No JSON found in LLM response")

\* language.lower() ahead of the try block raises for a language that is
\* no string
LanguageIsString(language) == language # NULL

(***************************************************************************)
(* LLMOrchestrator.summarize_call                                          *)
(***************************************************************************)
OrchFallback(transcription) ==
    [kind |-> "return",
     value |-> [success |-> FALSE, error |-> "All LLM services failed",
                fallback_summary |->
                    [summary |-> Truncate(transcription),
                     key_points |-> <<"Call transcription available">>,
                     sentiment |-> "neutral",
                     products_mentioned |-> <<>>,
                     action_items |-> <<"Manual review required">>,
                     customer_satisfaction |-> "unknown",
                     issue_resolved |-> FALSE],
                service |-> "fallback"]]

\* the handler of "except Exception" logs and then reads result, which the
\* failed assignment left unbound
AdapterRaised(transcription) == [kind |-> "raise", error |-> "UnboundLocalError"]

\* summarize_call once the adapter has returned or raised
OrchAfterAdapter(transcription, ares) ==
    IF ares.kind = "raise" THEN AdapterRaised(transcription)
    ELSE IF ares.value.success
    THEN [kind |-> "return", value |-> Put(ares.value, "service", "ollama")]
    ELSE OrchFallback(transcription)

\* self.stats after summarize_call
OrchSummarizeStats(st, res) ==
    IF res.kind = "return" /\ res.value.success
    THEN [st EXCEPT !.ollama_requests = @ + 1]
    ELSE st

\* the whole of summarize_call, for a caller that awaits it
OrchSummarizeCall(transcription, language, prefer_local, reply) ==
    IF ~prefer_local THEN OrchFallback(transcription)
    ELSE IF ~LanguageIsString(language)
    THEN OrchAfterAdapter(transcription, [kind |-> "raise", error |-> "AttributeError"])
    ELSE OrchAfterAdapter(transcription,
                          OllamaSummarizeParse(transcription, OllamaGenerate(reply)))

(***************************************************************************)
(* MLPipeline.process_call                                                 *)
(***************************************************************************)
Configs ==
    [enable_embeddings : BOOLEAN, enable_llm : BOOLEAN,
     enable_vector_storage : BOOLEAN, batch_size : 1..MaxBatchSize]

\* a call as it arrives in the request body: a JSON object, whose
\* transcriptionText may be empty and whose language may be null, or a JSON
\* value that is no object
DictCalls ==
    [kind : {"dict"}, callId : {"c1"}, transcriptionText : {Text(0), Text(2)},
     language : {"he", "en", NULL}]
NotDictCall ==
    [kind |-> "not_dict", callId |-> NULL, transcriptionText |-> Text(0),
     language |-> NULL]
Calls == DictCalls \cup {NotDictCall}

StageNames == {"embedding", "llm_analysis", "vector_storage", "product_analysis"}
TaskNames == {"embedding", "llm_analysis"}
NoRet == [name |-> NULL, data |-> EmptyDict]
NoTasks == [t \in TaskNames |-> [state |-> "absent", ret |-> NoRet]]
NoStages == [s \in StageNames |-> "not_run"]
NoStats ==
    [calls_processed |-> 0, embeddings_generated |-> 0, summaries_created |-> 0,
     vector_entries_added |-> 0, errors |-> 0]
NoOrchStats ==
    [ollama_requests |-> 0, bedrock_requests |-> 0, fallback_triggers |-> 0,
     total_errors |-> 0, fast_responses |-> 0, slow_responses |-> 0]
NoOutcome == [kind |-> "none"]

\* "if transcription:"
HasText(cd) == Len(cd.transcriptionText) > 0

\* the parallel_tasks list: one coroutine per enabled stage
ParallelTasks(cfg, cd) ==
    {t \in TaskNames :
        /\ HasText(cd)
        /\ (t = "embedding" => cfg.enable_embeddings)
        /\ (t = "llm_analysis" => cfg.enable_llm)}

\* generate_embedding_task, from the return of generate_embedding on
EmbeddingTaskReturn(ok) ==
    IF ok
    THEN [name |-> "embedding", data |-> [dimension |-> 1, model_name |-> "model"]]
    ELSE [name |-> "embedding",
          data |-> [error |-> "Embedding generation failed"]]

\* llm_analysis_task, from the return of summarize_call on
LlmTaskReturn(res) ==
    IF res.kind = "raise"
    THEN [name |-> "llm_analysis", data |-> [error |-> "LLM processing failed"]]
    ELSE IF res.value.success
    THEN [name |-> "llm_analysis",
          data |-> [summary |-> res.value.summary,
                    service_used |-> Get(res.value, "service", "unknown")]]
    ELSE [name |-> "llm_analysis",
          data |-> [summary |-> Get(res.value, "fallback_summary", EmptyDict),
                    service_used |-> "fallback",
                    error |-> "LLM analysis failed"]]

\* the message a task appends to errors, <<>> when it appends none
TaskErrors(ret) ==
    IF "error" \in DOMAIN ret.data THEN <<ret.data.error>> ELSE <<>>

\* a wait that returns with the first coroutine to resolve
GatherFirstDone(ts) == \E t \in TaskNames : ts[t].state = "done"

\* asyncio.gather returns once every coroutine handed to it has resolved
GatherDone(ts) == \A t \in TaskNames : ts[t].state \in {"absent", "done"}

\* "for task_result in parallel_results: results[task_name] = task_data"
GatherResults(ts) ==
    LET done == {t \in TaskNames : ts[t].state = "done"}
    IN  [t \in done |-> ts[t].ret.data]

\* the vector_data dict of step 4
VectorData(cd, customerId, res) ==
    LET summary == Get(Get(res, "llm_analysis", EmptyDict), "summary", EmptyDict)
    IN  [callId |-> cd.callId,
         customerId |-> customerId,
         transcriptionText |-> cd.transcriptionText,
         language |-> cd.language,
         sentiment |-> Get(summary, "sentiment", NULL),
         productsMentioned |-> Get(summary, "products_mentioned", <<>>),
         keyPoints |-> Get(summary, "key_points", <<>>)]

\* results['vector_storage'] after add_transcription returned
VectorResult(ok) ==
    IF ok
    THEN [success |-> TRUE, message |-> "Vector storage completed successfully"]
    ELSE [success |-> FALSE, error |-> "Vector storage failed"]

\* step 5: results['preprocessing'] is never set, so no entity is found
ProductAnalysis(cd, res) ==
    IF HasText(cd)
    THEN Put(res, "product_analysis",
             [products_detected |-> <<>>, phone_numbers_found |-> 0,
              entity_summary |-> EmptyDict])
    ELSE res

\* an all-or-nothing success flag
SuccessNoErrorsOnly(res, errs) == Len(errs) = 0

\* success = len(errors) == 0 or len(results) > len(errors)
Success(res, errs) == Len(errs) = 0 \/ DictLen(res) > Len(errs)

ProcessingResult(cd, res, errs) ==
    [kind |-> "return", success |-> Success(res, errs), call_id |-> cd.callId,
     results |-> res, errors |-> errs]

\* "self.stats['calls_processed'] += 1; if errors: self.stats['errors'] += 1"
FinishStats(st, errs) ==
    [st EXCEPT !.calls_processed = @ + 1,
               !.errors = IF Len(errs) > 0 THEN @ + 1 ELSE @]

\* step 5 and the return
Complete(res, errs, st, stg) ==
    LET final == ProductAnalysis(call_data, res)
    IN  /\ pc' = "completed"
        /\ results' = final
        /\ errors' = errs
        /\ pstats' = FinishStats(st, errs)
        /\ outcome' = ProcessingResult(call_data, final, errs)
        /\ stages' = [stg EXCEPT !["product_analysis"] =
                        IF HasText(call_data) THEN "ok" ELSE @]

\* a step 4 that is skipped once an earlier stage has failed
VectorWriteIfNoError(cfg, cd) ==
    cfg.enable_vector_storage /\ HasText(cd) /\ errors = <<>>

\* "if self.config.enable_vector_storage and transcription:"
VectorWriteAllowed(cfg, cd) == cfg.enable_vector_storage /\ HasText(cd)

\* step 4 up to "await weaviate_service.add_transcription(vector_data)",
\* or steps 4 and 5 and the return when nothing is written
AfterGather(res) ==
    IF VectorWriteAllowed(config, call_data)
    THEN /\ pc' = "vector_write"
         /\ results' = res
         /\ vector_data' = VectorData(call_data, "cust", res)
         /\ UNCHANGED <<errors, pstats, outcome, stages>>
    ELSE Complete(res, errors, pstats, stages) /\ UNCHANGED vector_data

\* process_call up to its first await
ProcessCallStart ==
    /\ pc = "received"
    /\ IF call_data.kind = "not_dict"
       THEN /\ pc' = "raised"
            /\ outcome' = [kind |-> "raise", error |-> "AttributeError"]
            /\ UNCHANGED <<tasks, results, errors, vector_data, pstats, stages>>
       ELSE IF ParallelTasks(config, call_data) # {}
       THEN /\ pc' = "gather"
            /\ tasks' = [t \in TaskNames |->
                            IF t \in ParallelTasks(config, call_data)
                            THEN [state |-> "scheduled", ret |-> NoRet]
                            ELSE tasks[t]]
            /\ UNCHANGED <<results, errors, vector_data, pstats, outcome, stages>>
       ELSE /\ AfterGather(results)
            /\ UNCHANGED tasks
    /\ UNCHANGED <<config, call_data, ostats, batchVars, summVars, genVars,
                   serviceVars>>

\* a coroutine of gather runs up to its await of the backend
TaskStart(t) ==
    /\ tasks[t].state = "scheduled"
    /\ tasks' = [tasks EXCEPT ![t].state = "running"]
    /\ UNCHANGED <<config, pstats, call_data, pc, results, errors, vector_data,
                   outcome, stages, ostats, batchVars, summVars, genVars,
                   serviceVars>>

\* generate_embedding returns or raises
EmbeddingTaskResolve(ok) ==
    /\ tasks["embedding"].state = "running"
    /\ LET ret == EmbeddingTaskReturn(ok)
       IN  /\ tasks' = [tasks EXCEPT !["embedding"] = [state |-> "done", ret |-> ret]]
           /\ errors' = errors \o TaskErrors(ret)
    /\ pstats' = [pstats EXCEPT !.embeddings_generated = IF ok THEN @ + 1 ELSE @]
    /\ stages' = [stages EXCEPT !["embedding"] = IF ok THEN "ok" ELSE "failed"]
    /\ UNCHANGED <<config, call_data, pc, results, vector_data, outcome, ostats,
                   batchVars, summVars, genVars,
                   serviceVars>>

\* summarize_call returns or raises
LlmTaskResolve(reply) ==
    /\ tasks["llm_analysis"].state = "running"
    /\ LET res == OrchSummarizeCall(call_data.transcriptionText,
                                    call_data.language, TRUE, reply)
           ret == LlmTaskReturn(res)
           ok  == res.kind = "return" /\ res.value.success
       IN  /\ tasks' = [tasks EXCEPT !["llm_analysis"] = [state |-> "done", ret |-> ret]]
           /\ errors' = errors \o TaskErrors(ret)
           /\ pstats' = [pstats EXCEPT !.summaries_created = IF ok THEN @ + 1 ELSE @]
           /\ ostats' = OrchSummarizeStats(ostats, res)
           /\ stages' = [stages EXCEPT !["llm_analysis"] = IF ok THEN "ok" ELSE "failed"]
    /\ UNCHANGED <<config, call_data, pc, results, vector_data, outcome,
                   batchVars, summVars, genVars,
                   serviceVars>>

\* gather returns; the coroutine runs on to its next await or to its return
GatherReturn ==
    /\ pc = "gather"
    /\ GatherDone(tasks)
    /\ AfterGather(GatherResults(tasks))
    /\ UNCHANGED <<config, call_data, tasks, ostats, batchVars, summVars, genVars,
                   serviceVars>>

\* add_transcription returns True or False (it catches its own exceptions)
VectorWriteReturn(ok) ==
    /\ pc = "vector_write"
    /\ Complete(Put(results, "vector_storage", VectorResult(ok)),
                IF ok THEN errors ELSE Append(errors, "Vector storage failed"),
                [pstats EXCEPT !.vector_entries_added = IF ok THEN @ + 1 ELSE @],
                [stages EXCEPT !["vector_storage"] = IF ok THEN "ok" ELSE "failed"])
    /\ UNCHANGED <<config, call_data, tasks, vector_data, ostats, batchVars,
                   summVars, genVars,
                   serviceVars>>

(***************************************************************************)
(* MLPipeline.process_batch                                                *)
(***************************************************************************)
\* process_call as one function of what its backends answer; embFirst is
\* the order in which the two coroutines of gather resolved
ProcessCallResult(cfg, cd, embOk, reply, vecOk, embFirst) ==
    LET pts    == ParallelTasks(cfg, cd)
        embRet == EmbeddingTaskReturn(embOk)
        llmRet == LlmTaskReturn(OrchSummarizeCall(cd.transcriptionText,
                                                  cd.language, TRUE, reply))
        embErr == IF "embedding" \in pts THEN TaskErrors(embRet) ELSE <<>>
        llmErr == IF "llm_analysis" \in pts THEN TaskErrors(llmRet) ELSE <<>>
        errs0  == IF embFirst THEN embErr \o llmErr ELSE llmErr \o embErr
        res0   == [t \in pts |-> IF t = "embedding" THEN embRet.data ELSE llmRet.data]
        write  == VectorWriteAllowed(cfg, cd)
        res1   == IF write THEN Put(res0, "vector_storage", VectorResult(vecOk)) ELSE res0
        errs1  == IF write /\ ~vecOk THEN Append(errs0, "Vector storage failed") ELSE errs0
    IN  ProcessingResult(cd, ProductAnalysis(cd, res1), errs1)

\* self.stats after that process_call
ProcessCallStats(st, cfg, cd, embOk, reply, vecOk, res) ==
    LET pts == ParallelTasks(cfg, cd)
        llm == OrchSummarizeCall(cd.transcriptionText, cd.language, TRUE, reply)
    IN  FinishStats(
            [st EXCEPT
                !.embeddings_generated =
                    IF "embedding" \in pts /\ embOk THEN @ + 1 ELSE @,
                !.summaries_created =
                    IF "llm_analysis" \in pts /\ llm.kind = "return" /\ llm.value.success
                    THEN @ + 1 ELSE @,
                !.vector_entries_added =
                    IF VectorWriteAllowed(cfg, cd) /\ vecOk THEN @ + 1 ELSE @],
            res.errors)

\* process_call awaits nothing when no stage of it is to run
AwaitsNothing(cfg, cd) ==
    ParallelTasks(cfg, cd) = {} /\ ~VectorWriteAllowed(cfg, cd)

\* a semaphore that admits every caller
SemaphoreAlwaysFree(value) == TRUE

\* "async with semaphore" enters when the value is positive
SemaphoreFree(value) == value > 0

\* the loop over the gathered results: an exception becomes a failed
\* ProcessingResult whose call_id is calls_data[i].get('callId', ...)
HandleResult(cd, res) ==
    IF res.kind # "raise" THEN res
    ELSE IF cd.kind = "dict"
    THEN [kind |-> "return", success |-> FALSE, call_id |-> cd.callId,
          results |-> EmptyDict, errors |-> <<res.error>>]
    ELSE [kind |-> "raise", error |-> "AttributeError"]

ProcessedResults(cds, gathered) ==
    LET each == [i \in 1..Len(cds) |-> HandleResult(cds[i], gathered[i])]
    IN  IF \E i \in 1..Len(cds) : each[i].kind = "raise"
        THEN [kind |-> "raise", error |-> "AttributeError"]
        ELSE [kind |-> "return", value |-> each]

\* process_batch up to its await of gather
BatchStart ==
    /\ bpc = "idle"
    /\ bpc' = "gather"
    /\ semaphore' = config.batch_size
    /\ btasks' = [i \in 1..Len(calls_data) |-> "waiting"]
    /\ bresults' = [i \in 1..Len(calls_data) |-> NoOutcome]
    /\ UNCHANGED <<config, pstats, ostats, calls_data, boutcome, callVars,
                   summVars, genVars,
                   serviceVars>>

\* process_single_with_semaphore enters the semaphore and runs process_call
\* up to its first await; a process_call that raises or returns at once
\* leaves the semaphore in the same step
BatchTaskAcquire(i) ==
    /\ bpc = "gather"
    /\ btasks[i] = "waiting"
    /\ SemaphoreFree(semaphore)
    /\ LET cd == calls_data[i]
       IN  IF cd.kind = "not_dict"
           THEN /\ btasks' = [btasks EXCEPT ![i] = "done"]
                /\ bresults' = [bresults EXCEPT ![i] =
                                   [kind |-> "raise", error |-> "AttributeError"]]
                /\ UNCHANGED <<semaphore, pstats>>
           ELSE IF AwaitsNothing(config, cd)
           THEN LET res == ProcessCallResult(config, cd, TRUE, NoReply, TRUE, TRUE)
                IN  /\ btasks' = [btasks EXCEPT ![i] = "done"]
                    /\ bresults' = [bresults EXCEPT ![i] = res]
                    /\ pstats' = FinishStats(pstats, res.errors)
                    /\ UNCHANGED semaphore
           ELSE /\ btasks' = [btasks EXCEPT ![i] = "running"]
                /\ semaphore' = semaphore - 1
                /\ UNCHANGED <<bresults, pstats>>
    /\ UNCHANGED <<config, ostats, calls_data, bpc, boutcome, callVars, summVars,
                   genVars,
                   serviceVars>>

\* the process_call of task i returns and the task leaves the semaphore
BatchTaskFinish(i, embOk, reply, vecOk, embFirst) ==
    /\ bpc = "gather"
    /\ btasks[i] = "running"
    /\ LET cd  == calls_data[i]
           res == ProcessCallResult(config, cd, embOk, reply, vecOk, embFirst)
       IN  /\ bresults' = [bresults EXCEPT ![i] = res]
           /\ pstats' = ProcessCallStats(pstats, config, cd, embOk, reply, vecOk, res)
           /\ ostats' = IF "llm_analysis" \in ParallelTasks(config, cd)
                        THEN OrchSummarizeStats(ostats,
                                OrchSummarizeCall(cd.transcriptionText, cd.language,
                                                  TRUE, reply))
                        ELSE ostats
    /\ btasks' = [btasks EXCEPT ![i] = "done"]
    /\ semaphore' = semaphore + 1
    /\ UNCHANGED <<config, calls_data, bpc, boutcome, callVars, summVars, genVars,
                   serviceVars>>

\* gather returns once every task is done; the exceptions are handled
BatchReturn ==
    /\ bpc = "gather"
    /\ \A i \in 1..Len(calls_data) : btasks[i] = "done"
    /\ bpc' = "returned"
    /\ boutcome' = ProcessedResults(calls_data, bresults)
    /\ UNCHANGED <<config, pstats, ostats, calls_data, semaphore, btasks,
                   bresults, callVars, summVars, genVars,
                   serviceVars>>

(***************************************************************************)
(* LLMOrchestrator.summarize_call, step by step                            *)
(***************************************************************************)
\* the lengths of transcription around the 200 characters of the fallback
TextLengths ==
    {0, 1, FallbackChars - 1, FallbackChars, FallbackChars + 1, MaxTextLen}
SummarizeRequests ==
    [transcription : {Text(n) : n \in TextLengths},
     language : {"hebrew", "en", NULL},
     prefer_local : BOOLEAN]
NoRequest == [transcription |-> Text(0), language |-> NULL, prefer_local |-> TRUE]

\* what the backend may answer, given whether it can be reached
RepliesOf(up) == IF up THEN Replies \ {r \in Replies : r.kind \in Unavailable}
                 ELSE {r \in Replies : r.kind \in Unavailable}

\* summarize_call up to the await inside the adapter, or to its end when the
\* adapter is not called or raises before it awaits anything
SummarizeStart ==
    /\ spc = "idle"
    /\ LET t == srequest.transcription
       IN  IF ~srequest.prefer_local
           THEN /\ spc' = "done"
                /\ soutcome' = OrchFallback(t)
                /\ UNCHANGED sadapter
           ELSE IF ~LanguageIsString(srequest.language)
           THEN /\ spc' = "done"
                /\ sadapter' = [kind |-> "raise", error |-> "AttributeError"]
                /\ soutcome' = OrchAfterAdapter(t, sadapter')
           ELSE /\ spc' = "awaiting"
                /\ sadapter' = [kind |-> "pending"]
                /\ UNCHANGED soutcome
    /\ UNCHANGED <<config, pstats, ostats, srequest, backend, callVars,
                   batchVars, genVars,
                   serviceVars>>

\* the backend answers; the adapter parses and returns; summarize_call returns
SummarizeResume(reply) ==
    /\ spc = "awaiting"
    /\ reply \in RepliesOf(backend.up)
    /\ LET t == srequest.transcription
       IN  /\ sadapter' = OllamaSummarizeParse(t, OllamaGenerate(reply))
           /\ soutcome' = OrchAfterAdapter(t, sadapter')
           /\ ostats' = OrchSummarizeStats(ostats, soutcome')
    /\ spc' = "done"
    /\ backend' = [backend EXCEPT !.reply = reply]
    /\ UNCHANGED <<config, pstats, srequest, callVars, batchVars, genVars,
                   serviceVars>>

(***************************************************************************)
(* LLMOrchestrator.generate_response                                       *)
(***************************************************************************)
\* the code points a prompt is made of: around the Hebrew block
HebrewFirst == 1424
HebrewLast == 1535
CodePoints == {65, HebrewFirst - 1, HebrewFirst, HebrewLast, HebrewLast + 1}
MaxPromptLen == 2
Prompts == UNION {[1..n -> CodePoints] : n \in 0..MaxPromptLen}

\* any(ord(char) >= 0x0590 and ord(char) <= 0x05FF for char in prompt)
HasHebrew(prompt) ==
    \E i \in 1..Len(prompt) : prompt[i] >= HebrewFirst /\ prompt[i] <= HebrewLast

\* services_to_try: both branches append the local adapter, and the
\* fallback adapter is commented out
ServicesToTry(prompt, use_ollama_for_hebrew) ==
    IF HasHebrew(prompt) /\ use_ollama_for_hebrew
    THEN <<"ollama">>
    ELSE <<"ollama">>

\* two prompts with a keyword: mi (who), and 'report'
KeywordPrompts == {<<1502, 1497>>, <<114, 101, 112, 111, 114, 116>>}
GenerateRequests ==
    [prompt : Prompts \cup KeywordPrompts, use_ollama_for_hebrew : BOOLEAN]

\* the environment variable OLLAMA_TIMEOUT: not set, or a number of seconds
NoEnv == [set |-> FALSE, value |-> 0]
OllamaTimeoutEnvs == {NoEnv, [set |-> TRUE, value |-> 20]}
\* int(os.getenv('OLLAMA_TIMEOUT', '40')), read in generate_response
FixedDefault == 40
FixedTimeout(env) == IF env.set THEN env.value ELSE FixedDefault
NoGenerate == [prompt |-> <<>>, use_ollama_for_hebrew |-> TRUE]

\* what an awaited adapter call can do: return, raise, or outlast wait_for
AdapterOutcomes ==
    {OllamaGenerate(r) : r \in Replies} \cup {[kind |-> "wait_for_timeout"]}

\* an except branch that swallows the failure
NoErrorRecorded(errs, service, out) == errs

\* the two except branches of the loop
AttemptError(errs, service, out) ==
    IF out.kind = "wait_for_timeout"
    THEN Append(errs, [service |-> service, what |-> "request timed out"])
    ELSE Append(errs, [service |-> service, what |-> "error"])

\* the dict returned from inside the loop
GenerateSuccess(service, out) ==
    [kind |-> "return",
     value |-> [success |-> TRUE, content |-> out.content, service |-> service,
                model |-> out.model]]

\* the dict returned after the loop
GenerateFailure(errs, services) ==
    [kind |-> "return",
     value |-> [success |-> FALSE, errors |-> errs, services_tried |-> services]]

\* one turn of "for service_info in services_to_try" up to the await, or
\* the code after the loop when the list is used up
GenerateNext(index, errs, active) ==
    LET services == ServicesToTry(grequest.prompt, grequest.use_ollama_for_hebrew)
    IN  IF index <= Len(services)
        THEN /\ gpc' = "awaiting"
             /\ gindex' = index
             /\ gerrors' = errs
             /\ gactive' = active \cup {services[index]}
             /\ gattempts' = Append(gattempts, services[index])
             /\ gtimeout' = [gtimeout EXCEPT !.applied = FixedTimeout(gtimeout.env)]
             /\ UNCHANGED <<goutcome, ostats>>
        ELSE /\ gpc' = "done"
             /\ gindex' = index
             /\ gerrors' = errs
             /\ goutcome' = GenerateFailure(errs, services)
             /\ ostats' = [ostats EXCEPT !.total_errors = @ + 1]
             /\ gactive' = active
             /\ UNCHANGED <<gattempts, gtimeout>>

GenerateStart ==
    /\ gpc = "idle"
    /\ GenerateNext(1, <<>>, gactive)
    /\ UNCHANGED <<config, pstats, grequest, gstats, callVars, batchVars,
                   summVars, serviceVars>>

\* the awaited adapter call ends; fast says that it took less than 5 s
GenerateResume(out, fast) ==
    /\ gpc = "awaiting"
    /\ LET services == ServicesToTry(grequest.prompt, grequest.use_ollama_for_hebrew)
           service  == services[gindex]
       IN  IF out.kind = "return"
           THEN /\ gpc' = "done"
                /\ goutcome' = GenerateSuccess(service, out)
                /\ ostats' = [ostats EXCEPT
                                !.ollama_requests = @ + 1,
                                !.fast_responses = IF fast THEN @ + 1 ELSE @,
                                !.slow_responses = IF fast THEN @ ELSE @ + 1]
                /\ gactive' = gactive \ {service}
                /\ UNCHANGED <<gindex, gerrors, gattempts, gtimeout>>
           ELSE GenerateNext(gindex + 1, AttemptError(gerrors, service, out),
                             gactive \ {service})
    /\ UNCHANGED <<config, pstats, grequest, gstats, callVars, batchVars,
                   summVars, serviceVars>>

(***************************************************************************)
(* InferenceCache                                                          *)
(***************************************************************************)
\* largest INFERENCE_CACHE_SIZE
MaxCacheSize == 2
\* last reading of the clock
MaxTime == 3
\* self.ttl, in readings of the clock
TTL == 2

\* _get_cache_key: the digest of the five fields, taken to be equal exactly
\* when the five fields are
GetCacheKey(prompt, model, temperature, max_tokens, classifications_available) ==
    [prompt |-> prompt, model |-> model, temperature |-> temperature,
     max_tokens |-> max_tokens,
     classifications_available |-> classifications_available]

CacheKeys(c) == {c[i].key : i \in 1..Len(c)}

\* position of key in the dict, 0 when "key in self.cache" is false
KeyIndex(c, key) ==
    IF key \in CacheKeys(c)
    THEN CHOOSE i \in 1..Len(c) : c[i].key = key
    ELSE 0

\* del self.cache[key]
Remove(c, i) == SubSeq(c, 1, i - 1) \o SubSeq(c, i + 1, Len(c))

\* an eviction that takes the entry stored last
NewestIndex(c) == Len(c)

\* min(self.cache.keys(), key=lambda k: self.cache[k][1]): the first entry,
\* in dict order, among those with the least timestamp
OldestIndex(c) ==
    CHOOSE i \in 1..Len(c) :
        \A j \in 1..Len(c) :
            \/ c[i].timestamp < c[j].timestamp
            \/ c[i].timestamp = c[j].timestamp /\ i <= j

\* a cache that never evicts
EvictNever(c, max) == c

\* if len(self.cache) >= self.max_size: del self.cache[oldest_key]
Evict(c, max) == IF Len(c) >= max THEN Remove(c, OldestIndex(c)) ELSE c

\* self.cache[key] = (response, datetime.now()): a key already stored keeps
\* its place in the dict
Store(c, key, response, t) ==
    LET entry == [key |-> key, response |-> response, timestamp |-> t]
        i     == KeyIndex(c, key)
    IN  IF i = 0 THEN Append(c, entry) ELSE [c EXCEPT ![i] = entry]

\* InferenceCache.set
CacheSet(c, key, response, t, max) == Store(Evict(c, max), key, response, t)

\* a freshness test that lets the entry live one reading longer
FreshInclusive(timestamp, t) == t - timestamp <= TTL

\* datetime.now() - timestamp < self.ttl
Fresh(timestamp, t) == t - timestamp < TTL

\* the None that get returns, as a value that compares with a response
NoResponse == [none |-> TRUE]
NoKey == [none |-> TRUE]

\* InferenceCache.get: the value returned and the dict it leaves
CacheGet(c, key, t) ==
    LET i == KeyIndex(c, key)
    IN  IF i = 0 THEN [response |-> NoResponse, cache |-> c]
        ELSE IF Fresh(c[i].timestamp, t)
        THEN [response |-> c[i].response, cache |-> c]
        ELSE [response |-> NoResponse, cache |-> Remove(c, i)]

\* the keys and responses the operations are called with
CachePrompts == 1..(MaxCacheSize + 1)
CacheRequestKeys ==
    {GetCacheKey(p, HebrewModel, 1, 1, FALSE) : p \in CachePrompts}
\* an LLMResponse built at reading t, as generate_response builds one
\* just before it calls set
CacheResponses(t) == {[content |-> "text", timestamp |-> t]}

NoCacheOp ==
    [op |-> "none", key |-> NoKey, response |-> NoResponse, found |-> "none",
     run |-> [ok |-> TRUE, keys |-> <<>>]]

\* the keys set one after the other since the cache was last empty, up to
\* max_size + 1 of them; not ok once another operation changed the dict
NoRun == [ok |-> FALSE, keys |-> <<>>]
SetRun(run, key) ==
    IF run.ok /\ Len(run.keys) <= max_size
    THEN [ok |-> TRUE, keys |-> Append(run.keys, key)]
    ELSE NoRun

\* which branch of InferenceCache.get a lookup takes
Found(c, key, t) ==
    IF KeyIndex(c, key) = 0 THEN "absent"
    ELSE IF CacheGet(c, key, t).response # NoResponse THEN "fresh"
    ELSE "expired"

GetOp(key) ==
    /\ LET got == CacheGet(cache, key, now)
       IN  /\ cache' = got.cache
           /\ cache_op' = [op |-> "get", key |-> key, response |-> got.response,
                           found |-> Found(cache, key, now),
                           run |-> IF got.cache = cache THEN cache_op.run
                                   ELSE NoRun]
    /\ UNCHANGED <<max_size, now>>
    /\ UNCHANGED <<config, pstats, ostats, callVars, batchVars, summVars, genVars,
                   ollamaVars, embVars, mergeVars, opsVars>>

SetOp(key, response) ==
    /\ cache' = CacheSet(cache, key, response, now, max_size)
    /\ cache_op' = [op |-> "set", key |-> key, response |-> response,
                    found |-> "none", run |-> SetRun(cache_op.run, key)]
    /\ UNCHANGED <<max_size, now>>
    /\ UNCHANGED <<config, pstats, ostats, callVars, batchVars, summVars, genVars,
                   ollamaVars, embVars, mergeVars, opsVars>>

ClearOp ==
    /\ cache' = <<>>
    /\ cache_op' = [op |-> "clear", key |-> NoKey, response |-> NoResponse,
                    found |-> "none", run |-> [ok |-> TRUE, keys |-> <<>>]]
    /\ UNCHANGED <<max_size, now>>
    /\ UNCHANGED <<config, pstats, ostats, callVars, batchVars, summVars, genVars,
                   ollamaVars, embVars, mergeVars, opsVars>>

\* time passes between two operations
Tick ==
    /\ now < MaxTime
    /\ now' = now + 1
    /\ UNCHANGED <<cache, max_size, cache_op>>
    /\ UNCHANGED <<config, pstats, ostats, callVars, batchVars, summVars, genVars,
                   ollamaVars, embVars, mergeVars, opsVars>>

(***************************************************************************)
(* OllamaService.generate_response with its cache                          *)
(***************************************************************************)
\* the calls of generate_response: a first one and, once it has ended, a
\* second one
OllamaCalls == 1..2

OllamaPrompts == 1..2

\* what a POST /api/generate can do
HttpReplies == {"200", "404", "500", "conn_error", "timeout"}

\* the key of a request: get and set pass full_prompt, model_name, temp,
\* max_tok and the availability flag
NoFlagKey(prompt, flag) == GetCacheKey(prompt, HebrewModel, 1, 1, FALSE)
RequestKey(prompt, flag) == GetCacheKey(prompt, HebrewModel, 1, 1, flag)

\* len(self.hebrew_classifications) > 0
ClassificationsAvailable(classifications) == Len(classifications) > 0

\* the LLMResponse a call builds; id tells the objects apart, stored_under
\* is the availability at the time the object was handed to set
LLMResponse(id, prompt, model, start_time, end_time, fallback_used, flag) ==
    [id |-> id, content |-> [answer_to |-> prompt], model |-> model,
     timestamp |-> end_time, processing_time |-> end_time - start_time,
     fallback_used |-> fallback_used, stored_under |-> flag]

NoCallOutcome == [kind |-> "none"]
IdleCall ==
    [state |-> "idle", prompt |-> 0, flag |-> FALSE, start_time |-> 0,
     outcome |-> NoCallOutcome, removed |-> FALSE, stored |-> FALSE,
     served_outdated |-> FALSE]
\* what is kept of a call once olast has taken its record
DoneCall == [IdleCall EXCEPT !.state = "done"]

\* if self.cache: cached_response = self.cache.get(...)
LookUp(enabled, c, key, t) ==
    IF enabled THEN CacheGet(c, key, t) ELSE [response |-> NoResponse, cache |-> c]

\* a cache that also stores after a failed request
SetWhateverTheStatus(enabled, c, reply, key, response, t, max) ==
    IF enabled THEN CacheSet(c, key, response, t, max) ELSE c

\* if self.cache: self.cache.set(...), reached only in the 200 branch
SetAfterReply(enabled, c, reply, key, response, t, max) ==
    IF enabled /\ reply = "200" THEN CacheSet(c, key, response, t, max) ELSE c

\* call i ends: its record goes to olast
Finish(i, call) ==
    /\ ocalls' = [ocalls EXCEPT ![i] = DoneCall]
    /\ olast' = [call EXCEPT !.state = "done"]

\* generate_response up to its first await: a cache hit returns the stored
\* object, a miss sends the request for self.hebrew_model
OllamaStart(i, prompt) ==
    /\ i \in 1..Len(ocalls)
    /\ ocalls[i].state = "idle"
    /\ \A j \in 1..(i - 1) : ocalls[j].state = "done"
    /\ LET flag == ClassificationsAvailable(hebrew_classifications)
           got  == LookUp(cache_enabled, cache, RequestKey(prompt, flag), now)
           call == [ocalls[i] EXCEPT !.prompt = prompt, !.flag = flag,
                                     !.start_time = now,
                                     !.removed = (got.cache # cache)]
       IN  /\ cache' = got.cache
           /\ IF got.response # NoResponse
              THEN Finish(i, [call EXCEPT
                          !.outcome = [kind |-> "return", cached |-> TRUE,
                                       response |-> got.response],
                          !.served_outdated = (got.response.id \in outdated)])
              ELSE /\ ocalls' = [ocalls EXCEPT ![i] =
                                   [call EXCEPT !.state = "awaiting"]]
                   /\ UNCHANGED olast
    /\ UNCHANGED <<max_size, now, cache_op, cache_enabled,
                   hebrew_classifications, request_count, outdated>>
    /\ UNCHANGED <<config, pstats, ostats, callVars, batchVars, summVars, genVars,
                   embVars, mergeVars, opsVars>>

\* the answer to the first POST arrives
OllamaReply(i, reply) ==
    /\ i \in 1..Len(ocalls)
    /\ ocalls[i].state = "awaiting"
    /\ LET call     == ocalls[i]
           flag     == ClassificationsAvailable(hebrew_classifications)
           response == LLMResponse(i, call.prompt, HebrewModel,
                                   call.start_time, now, FALSE, flag)
           after    == SetAfterReply(cache_enabled, cache, reply,
                                     RequestKey(call.prompt, flag), response,
                                     now, max_size)
       IN  /\ cache' = after
           /\ request_count' = IF reply = "200" THEN request_count + 1
                               ELSE request_count
           /\ IF reply = "200"
              THEN Finish(i, [call EXCEPT
                          !.outcome = [kind |-> "return", cached |-> FALSE,
                                       response |-> response],
                          !.stored = cache_enabled])
              ELSE IF reply = "404"
              THEN /\ ocalls' = [ocalls EXCEPT ![i] =
                                   [call EXCEPT !.state = "fallback"]]
                   /\ UNCHANGED olast
              ELSE Finish(i, [call EXCEPT
                          !.stored = (after # cache),
                          !.outcome = [kind |-> "raise", error |-> "Exception"]])
    /\ UNCHANGED <<max_size, now, cache_op, cache_enabled,
                   hebrew_classifications, outdated>>
    /\ UNCHANGED <<config, pstats, ostats, callVars, batchVars, summVars, genVars,
                   embVars, mergeVars, opsVars>>

\* the answer to the second POST, the one for self.config.model_name,
\* arrives; with a cache the set call of this branch passes one argument
\* too few and raises TypeError
OllamaFallbackReply(i, reply) ==
    /\ i \in 1..Len(ocalls)
    /\ ocalls[i].state = "fallback"
    /\ LET call     == ocalls[i]
           flag     == ClassificationsAvailable(hebrew_classifications)
           response == LLMResponse(i, call.prompt, DefaultModel,
                                   call.start_time, now, TRUE, flag)
       IN  /\ request_count' = IF reply = "200" THEN request_count + 1
                               ELSE request_count
           /\ IF reply = "200" /\ ~cache_enabled
              THEN Finish(i, [call EXCEPT
                          !.outcome = [kind |-> "return", cached |-> FALSE,
                                       response |-> response]])
              ELSE IF reply = "200"
              THEN Finish(i, [call EXCEPT
                          !.outcome = [kind |-> "raise", error |-> "TypeError"]])
              ELSE Finish(i, [call EXCEPT
                          !.outcome = [kind |-> "raise", error |-> "Exception"]])
    /\ UNCHANGED <<cache, max_size, now, cache_op, cache_enabled,
                   hebrew_classifications, outdated>>
    /\ UNCHANGED <<config, pstats, ostats, callVars, batchVars, summVars, genVars,
                   embVars, mergeVars, opsVars>>

\* what /app/config/call-classifications.json holds when it is read
ClassificationFiles == {<<>>, <<"billing">>}

\* reload_classifications with the file there: the list is replaced.  A
\* missing or unreadable file returns False and changes nothing.
ReloadClassifications(file) ==
    /\ hebrew_classifications' = file
    /\ outdated' =
          IF ClassificationsAvailable(file)
                 # ClassificationsAvailable(hebrew_classifications)
          THEN outdated \cup {cache[n].response.id : n \in 1..Len(cache)}
          ELSE outdated
    /\ UNCHANGED <<cacheVars, cache_enabled, request_count, ocalls, olast>>
    /\ UNCHANGED <<config, pstats, ostats, callVars, batchVars, summVars, genVars,
                   embVars, mergeVars, opsVars>>

(***************************************************************************)
(* EmbeddingService                                                        *)
(***************************************************************************)
\* longest list of texts handed to one call
MaxTexts == 3
EmbTexts == {"a", "b"}
TextLists == UNION {[1..n -> EmbTexts] : n \in 0..MaxTexts}
\* self.config.batch_size
EmbBatchSize == 2
\* self.config.max_cache_size
MaxEmbCache == 2
\* largest number of items the index is let grow to
MaxIndexed == MaxTexts
\* the batch in which encode raises, 0 for none
FailAts == 0..((MaxTexts + EmbBatchSize - 1) \div EmbBatchSize)
\* whether loading the model succeeds, asked only when it is not loaded
LoadOutcomes(loaded) == IF loaded THEN {TRUE} ELSE BOOLEAN

\* the normalized vector the model computes for a text
Embedding(text) == [of |-> text]

\* faiss_index = None, and faiss.IndexFlatIP(dimension)
NoIndex == [exists |-> FALSE, vectors |-> <<>>]
EmptyIndex == [exists |-> TRUE, vectors |-> <<>>]

\* the {} stored for an item that came without metadata
EmptyMetadata == [about |-> NULL]

\* the index files save_index wrote at some earlier time
SavedIndex ==
    [vectors |-> <<Embedding("a")>>, texts |-> <<"a">>,
     metadata |-> <<EmptyMetadata>>]
IndexFiles == {"missing", "faiss_only", "complete"}

NoBatch == [texts |-> <<>>, kind |-> "none", results |-> <<>>]

\* text_hash in self.embedding_cache; the hash of a text is written as the
\* text
InEmbeddingCache(c, h) == \E n \in 1..Len(c) : c[n] = h

\* _cache_embedding: at max_cache_size the entry with the least timestamp
\* goes, then the hash gets the newest timestamp
CacheEmbedding(c, h) ==
    LET kept == IF Len(c) >= MaxEmbCache THEN Tail(c) ELSE c
    IN  Append(SelectSeq(kept, LAMBDA x : x # h), h)

RECURSIVE CacheAll(_, _)
CacheAll(c, hashes) ==
    IF hashes = <<>> THEN c
    ELSE CacheAll(CacheEmbedding(c, Head(hashes)), Tail(hashes))

EmbeddingResult(text) == [text |-> text, embedding |-> Embedding(text)]

\* original_texts.index(x.text)
FirstIndex(texts, text) ==
    CHOOSE i \in 1..Len(texts) :
        texts[i] = text /\ \A j \in 1..(i - 1) : texts[j] # text

\* results.sort(key=lambda x: original_texts.index(x.text)): a stable sort,
\* written as the results of key k, in their order, for k = 1, 2, ...
RECURSIVE SortByFirstIndex(_, _, _)
SortByFirstIndex(unsorted, texts, k) ==
    IF k > Len(texts) THEN <<>>
    ELSE SelectSeq(unsorted, LAMBDA r : FirstIndex(texts, r.text) = k)
             \o SortByFirstIndex(unsorted, texts, k + 1)

\* initialize_model: loaded and index afterwards; a load that succeeds
\* assigns a new, empty index
InitializeModelResult(loaded, index, load_ok) ==
    IF loaded THEN [loaded |-> TRUE, index |-> index]
    ELSE IF load_ok THEN [loaded |-> TRUE, index |-> EmptyIndex]
    ELSE [loaded |-> FALSE, index |-> index]

\* generate_batch_embeddings after initialize_model: the cached results
\* first, then the results of the encoded batches, then the sort; encode
\* raises in batch fail_at, and in the first batch when there is no model
GenerateBatch(texts, enabled, c, loaded, fail_at) ==
    LET positions == [i \in 1..Len(texts) |-> i]
        IsCached(i) == enabled /\ InEmbeddingCache(c, texts[i])
        cached    == SelectSeq(positions, IsCached)
        uncached  == SelectSeq(positions, LAMBDA i : ~IsCached(i))
        batches   == (Len(uncached) + EmbBatchSize - 1) \div EmbBatchSize
        failed    == Len(uncached) > 0 /\ (~loaded \/ fail_at \in 1..batches)
        encoded   == IF ~loaded THEN 0
                     ELSE IF fail_at \in 1..batches
                     THEN (fail_at - 1) * EmbBatchSize
                     ELSE Len(uncached)
        after     == IF enabled
                     THEN CacheAll(c, [n \in 1..encoded |-> texts[uncached[n]]])
                     ELSE c
        unsorted  == [n \in 1..Len(cached) |-> EmbeddingResult(texts[cached[n]])]
                     \o [n \in 1..Len(uncached) |->
                            EmbeddingResult(texts[uncached[n]])]
    IN  IF failed
        THEN [kind |-> "raise", results |-> <<>>, cache |-> after]
        ELSE [kind |-> "return", cache |-> after,
              results |-> SortByFirstIndex(unsorted, texts, 1)]

\* the metadata lists add_to_index is called with: None, one dict per text,
\* and a list that is one dict short
MatchingMetadata(texts) == [i \in 1..Len(texts) |-> [about |-> texts[i]]]
MetadataArgs(texts) ==
    {<<>>, MatchingMetadata(texts),
     SubSeq(MatchingMetadata(texts), 1, Len(texts) - 1)}

\* if metadata: extend(metadata) else: extend([{} for _ in texts])
StoredMetadata(texts, metadata) ==
    IF metadata # <<>> THEN metadata
    ELSE [i \in 1..Len(texts) |-> EmptyMetadata]

InitializeModel(load_ok) ==
    /\ LET init == InitializeModelResult(model_loaded, faiss_index, load_ok)
       IN  /\ model_loaded' = init.loaded
           /\ faiss_index' = init.index
    /\ UNCHANGED <<cache_embeddings, embedding_cache, indexed_texts,
                   index_metadata, elast>>
    /\ UNCHANGED <<config, pstats, ostats, callVars, batchVars, summVars, genVars,
                   cacheVars, ollamaVars, mergeVars, opsVars>>

GenerateBatchEmbeddings(texts, load_ok, fail_at) ==
    /\ LET init == InitializeModelResult(model_loaded, faiss_index, load_ok)
           gen  == GenerateBatch(texts, cache_embeddings, embedding_cache,
                                 init.loaded, fail_at)
       IN  /\ model_loaded' = init.loaded
           /\ faiss_index' = init.index
           /\ embedding_cache' = gen.cache
           /\ elast' = [texts |-> texts, kind |-> gen.kind,
                        results |-> gen.results]
    /\ UNCHANGED <<cache_embeddings, indexed_texts, index_metadata>>
    /\ UNCHANGED <<config, pstats, ostats, callVars, batchVars, summVars, genVars,
                   cacheVars, ollamaVars, mergeVars, opsVars>>

\* add_to_index: False without an index; otherwise the embeddings of
\* generate_batch_embeddings go to the index, the texts and the metadata to
\* their lists; an exception (encode, or faiss adding an empty array)
\* returns False
AddToIndex(texts, metadata, load_ok, fail_at) ==
    /\ Len(indexed_texts) + Len(texts) <= MaxIndexed
    /\ IF ~faiss_index.exists
       THEN UNCHANGED <<model_loaded, embedding_cache, faiss_index,
                        indexed_texts, index_metadata>>
       ELSE LET init == InitializeModelResult(model_loaded, faiss_index, load_ok)
                gen  == GenerateBatch(texts, cache_embeddings, embedding_cache,
                                      init.loaded, fail_at)
                added == gen.kind = "return" /\ texts # <<>>
            IN  /\ model_loaded' = init.loaded
                /\ embedding_cache' = gen.cache
                /\ faiss_index' =
                      IF added
                      THEN [init.index EXCEPT !.vectors =
                              @ \o [n \in 1..Len(gen.results) |->
                                       gen.results[n].embedding]]
                      ELSE init.index
                /\ indexed_texts' =
                      IF added THEN indexed_texts \o texts ELSE indexed_texts
                /\ index_metadata' =
                      IF added
                      THEN index_metadata \o StoredMetadata(texts, metadata)
                      ELSE index_metadata
    /\ UNCHANGED <<cache_embeddings, elast>>
    /\ UNCHANGED <<config, pstats, ostats, callVars, batchVars, summVars, genVars,
                   cacheVars, ollamaVars, mergeVars, opsVars>>

\* load_index: read_index assigns the index, then the metadata file gives
\* texts and metadata; an exception at either leaves what was assigned
LoadIndex(file) ==
    /\ faiss_index' =
          IF file = "missing" THEN faiss_index
          ELSE [exists |-> TRUE, vectors |-> SavedIndex.vectors]
    /\ indexed_texts' =
          IF file = "complete" THEN SavedIndex.texts ELSE indexed_texts
    /\ index_metadata' =
          IF file = "complete" THEN SavedIndex.metadata ELSE index_metadata
    /\ UNCHANGED <<cache_embeddings, model_loaded, embedding_cache, elast>>
    /\ UNCHANGED <<config, pstats, ostats, callVars, batchVars, summVars, genVars,
                   cacheVars, ollamaVars, mergeVars, opsVars>>

(***************************************************************************)
(* MLPipeline._merge_search_results                                        *)
(***************************************************************************)
\* A text is a sequence of characters, a character a number.  A callId is a
\* string as well, and <<>> stands for a callId that is missing, None or
\* empty: `result.get('callId') or ...` treats the three alike.
MaxResults == 3
KeyChars == 50
SharedPrefix == [i \in 1..KeyChars |-> 1]
SearchTexts ==
    {<<>>, <<1>>, SharedPrefix \o <<1>>, SharedPrefix \o <<2>>}
CallIds == {<<>>, <<1>>}
Scores == 1..2
Hits == [callId : CallIds, text : SearchTexts, similarity_score : Scores]

\* a hit as semantic_search formats it, and as search_similar does
VectorHit(hit) ==
    [callId |-> hit.callId, transcriptionText |-> hit.text,
     similarity_score |-> hit.similarity_score]
FaissHit(hit) ==
    [callId |-> hit.callId, text |-> hit.text,
     similarity_score |-> hit.similarity_score]

\* text[:50]
Prefix(text) ==
    SubSeq(text, 1, IF Len(text) < KeyChars THEN Len(text) ELSE KeyChars)

\* result.get('callId') or result.get(text_field, '')[:50]
DedupKey(result, text_field) ==
    IF result.callId # <<>> THEN result.callId ELSE Prefix(result[text_field])

AlwaysUnseen(key, seen_items) == key # <<>>

\* `if key and key not in seen_items`
Unseen(key, seen_items) == key # <<>> /\ key \notin seen_items

\* result['search_source'] = source; result['rank_score'] = its own score
Tagged(result, source) ==
    [field \in DOMAIN result \cup {"search_source", "rank_score"} |->
        IF field = "search_source" THEN source
        ELSE IF field = "rank_score" THEN result.similarity_score
        ELSE result[field]]

\* one of the two loops: the results of one source, in order, appended to
\* what is merged so far unless their key is empty or seen
RECURSIVE MergeFrom(_, _, _, _)
MergeFrom(source_results, source, text_field, sofar) ==
    IF source_results = <<>> THEN sofar
    ELSE LET result == Head(source_results)
             key == DedupKey(result, text_field)
         IN MergeFrom(Tail(source_results), source, text_field,
                IF Unseen(key, sofar.seen_items)
                THEN [merged |-> Append(sofar.merged, Tagged(result, source)),
                      seen_items |-> sofar.seen_items \cup {key}]
                ELSE sofar)

\* merged.sort(key=rank_score, reverse=True): stable, highest score first
RECURSIVE SortByRankScore(_)
SortByRankScore(unsorted) ==
    IF unsorted = <<>> THEN <<>>
    ELSE LET top == CHOOSE score \in {unsorted[i].rank_score :
                                         i \in 1..Len(unsorted)} :
                        \A i \in 1..Len(unsorted) :
                            unsorted[i].rank_score <= score
         IN SelectSeq(unsorted, LAMBDA result : result.rank_score = top)
            \o SortByRankScore(
                   SelectSeq(unsorted, LAMBDA result : result.rank_score # top))

MergeResult(vector, faiss) ==
    LET from_vector ==
            MergeFrom(vector, "vector", "transcriptionText",
                      [merged |-> <<>>, seen_items |-> {}])
        from_both == MergeFrom(faiss, "faiss", "text", from_vector)
    IN SortByRankScore(from_both.merged)

MergeSearchResults ==
    /\ mpc = "called"
    /\ merged' = MergeResult(vector_results, faiss_results)
    /\ mpc' = "returned"
    /\ UNCHANGED <<vector_results, faiss_results>>
    /\ UNCHANGED <<config, pstats, ostats, callVars, batchVars, summVars, genVars,
                   cacheVars, ollamaVars, embVars, opsVars>>

(***************************************************************************)
(* MLPipeline.intelligent_search                                           *)
(***************************************************************************)
\* what the two stores can answer with: no hit, one hit, or two hits that
\* share their key; a failure inside semantic_search or search_similar is
\* caught there and answered with []
SearchHit == [callId |-> <<>>, text |-> <<1>>, similarity_score |-> 1]
VectorAnswers ==
    {<<>>, <<VectorHit(SearchHit)>>,
     <<VectorHit([SearchHit EXCEPT !.callId = <<1>>]), VectorHit(SearchHit)>>}
FaissAnswers ==
    {<<>>, <<FaissHit(SearchHit)>>,
     <<FaissHit([SearchHit EXCEPT !.text = <<2>>, !.similarity_score = 2])>>}

\* customer_context is the request's JSON value, any that is truthy
SearchCalled(include_similar, context_is_dict) ==
    [pc |-> "embedding", include_similar |-> include_similar,
     context_is_dict |-> context_is_dict,
     embedding |-> "none", vector |-> "none", faiss |-> "none",
     search_details |-> EmptyDict, outcome |-> NoOutcome]

\* the except branch of intelligent_search
SearchFailed(s) ==
    [s EXCEPT !.pc = "done",
              !.outcome = [kind |-> "return",
                           value |-> [success |-> FALSE, error |-> "error"]]]

\* Step 2: generate_embedding is awaited inside the outer try, with no
\* handler of its own
SearchEmbedding(embedded) ==
    /\ isearch.pc = "embedding"
    /\ config.enable_embeddings \/ embedded
    /\ isearch' =
          IF ~config.enable_embeddings
          THEN [isearch EXCEPT !.pc = "vector", !.embedding = "skipped"]
          ELSE IF embedded
          THEN [isearch EXCEPT
                   !.pc = "vector", !.embedding = "ok",
                   !.search_details = Put(@, "query_embedding", <<>>)]
          ELSE SearchFailed([isearch EXCEPT !.embedding = "raised"])
    /\ UNCHANGED <<health, schema, insert, adaptive, sem>>
    /\ UNCHANGED <<coreVars, storeVars>>

\* Step 3: customer_context.get, then semantic_search, which returns []
\* for whatever fails in it
SearchVector(ok, hits) ==
    /\ isearch.pc = "vector"
    /\ LET asked == config.enable_vector_storage /\ isearch.context_is_dict
       IN  /\ IF asked /\ ok THEN TRUE ELSE hits = <<>>
           /\ asked \/ ok
    /\ isearch' =
          IF config.enable_vector_storage /\ ~isearch.context_is_dict
          THEN SearchFailed(isearch)
          ELSE IF config.enable_vector_storage
          THEN [isearch EXCEPT
                   !.pc = "faiss",
                   !.vector = IF ok THEN "ok" ELSE "failed",
                   !.search_details = Put(@, "vector_search", hits)]
          ELSE [isearch EXCEPT !.pc = "faiss", !.vector = "skipped"]
    /\ UNCHANGED <<health, schema, insert, adaptive, sem>>
    /\ UNCHANGED <<coreVars, storeVars>>

\* Step 4: search_similar, which returns [] for whatever fails in it;
\* Step 5: the merge and the return
SearchFaiss(ok, hits) ==
    /\ isearch.pc = "faiss"
    /\ LET asked == isearch.include_similar /\ config.enable_embeddings
           details ==
               IF asked THEN Put(isearch.search_details, "faiss_search", hits)
               ELSE isearch.search_details
           merged_results ==
               MergeResult(Get(details, "vector_search", <<>>),
                           Get(details, "faiss_search", <<>>))
       IN  /\ IF asked /\ ok THEN TRUE ELSE hits = <<>>
           /\ asked \/ ok
           /\ isearch' =
                 [isearch EXCEPT
                     !.pc = "done",
                     !.faiss = IF ~asked THEN "skipped"
                               ELSE IF ok THEN "ok" ELSE "failed",
                     !.search_details = details,
                     !.outcome =
                         [kind |-> "return",
                          value |-> [success |-> TRUE,
                                     results |-> merged_results,
                                     total_found |-> Len(merged_results)]]]
    /\ UNCHANGED <<health, schema, insert, adaptive, sem>>
    /\ UNCHANGED <<coreVars, storeVars>>

(***************************************************************************)
(* MLPipeline.health_check and LLMOrchestrator.health_check                *)
(***************************************************************************)
\* what GET /api/tags of the LLM backend can lead ollama_service.health_check
\* to: True, or False (model missing, another status, no connection); and
\* whether the GET of list_models that follows a True is answered
OllamaHealths == {"healthy", "healthy_then_down", "model_missing", "down"}

\* LLMOrchestrator.health_check: bedrock_healthy is no name at all, so the
\* second try block ends in its handler with status 'error'; the dict has
\* the keys timestamp, services, overall_status, primary_service
OrchHealth(ollama) ==
    LET ollama_healthy == ollama \in {"healthy", "healthy_then_down"}
        ollama_status == IF ollama_healthy THEN "healthy" ELSE "unhealthy"
        available_models ==
            IF ollama = "healthy" THEN <<DefaultModel>> ELSE <<>>
        bedrock_status == "error"
        ollama_ok == ollama_status = "healthy"
        bedrock_ok == bedrock_status = "healthy"
    IN  [services |-> [ollama |-> [status |-> ollama_status,
                                   available_models |-> available_models],
                       bedrock |-> [status |-> bedrock_status]],
         overall_status |->
             IF ollama_ok \/ bedrock_ok THEN "healthy" ELSE "unhealthy",
         primary_service |->
             IF ollama_ok THEN "ollama"
             ELSE IF bedrock_ok THEN "bedrock" ELSE "none"]

\* comp.get('status', 'unknown') of one entry of components
ComponentStatus(comp) == Get(comp, "status", "unknown")

\* the 'Overall status' block
PipelineStatus(components) ==
    LET component_statuses ==
            {ComponentStatus(components[name]) : name \in DOMAIN components}
    IN  IF \A status \in component_statuses : status = "healthy" THEN "healthy"
        ELSE IF \E status \in component_statuses : status = "healthy"
        THEN "degraded"
        ELSE "unhealthy"

HealthCalled ==
    [pc |-> "embeddings", components |-> EmptyDict, reports |-> EmptyDict,
     pipeline_status |-> "healthy"]

\* initialize_model returns False when the model does not load, and the
\* entry is made from embedding_service.model_loaded
HealthEmbeddings(load_ok) ==
    /\ health.pc = "embeddings"
    /\ IF config.enable_embeddings THEN load_ok \in LoadOutcomes(model_loaded)
       ELSE load_ok
    /\ LET init == InitializeModelResult(model_loaded, faiss_index, load_ok)
       IN  IF config.enable_embeddings
           THEN /\ model_loaded' = init.loaded
                /\ faiss_index' = init.index
                /\ health' =
                      [health EXCEPT
                          !.pc = "llm",
                          !.components =
                              Put(@, "embeddings",
                                  [status |-> IF init.loaded THEN "healthy"
                                              ELSE "unhealthy",
                                   model_loaded |-> init.loaded]),
                          !.reports = Put(@, "embeddings", init.loaded)]
           ELSE /\ health' = [health EXCEPT !.pc = "llm"]
                /\ UNCHANGED <<model_loaded, faiss_index>>
    /\ UNCHANGED <<cache_embeddings, embedding_cache, indexed_texts,
                   index_metadata, elast>>
    /\ UNCHANGED <<isearch, schema, insert, adaptive, sem>>
    /\ UNCHANGED <<coreVars, cacheVars, ollamaVars, mergeVars, adapterVars>>

HealthLLM(ollama) ==
    /\ health.pc = "llm"
    /\ config.enable_llm \/ ollama = "healthy"
    /\ health' =
          IF config.enable_llm
          THEN [health EXCEPT
                   !.pc = "vector_db",
                   !.components = Put(@, "llm", OrchHealth(ollama)),
                   !.reports =
                       Put(@, "llm",
                           OrchHealth(ollama).overall_status = "healthy")]
          ELSE [health EXCEPT !.pc = "vector_db"]
    /\ UNCHANGED <<isearch, schema, insert, adaptive, sem>>
    /\ UNCHANGED <<coreVars, storeVars>>

\* the vector store's check, the hebrew_processor entry, the overall status
HealthVector(weaviate_health) ==
    /\ health.pc = "vector_db"
    /\ config.enable_vector_storage \/ weaviate_health
    /\ LET with_vector ==
               IF config.enable_vector_storage
               THEN Put(health.components, "vector_db",
                        [status |-> IF weaviate_health THEN "healthy"
                                    ELSE "unhealthy",
                         connected |-> weaviate_health])
               ELSE health.components
           components ==
               Put(with_vector, "hebrew_processor",
                   [status |-> "healthy", nlp_loaded |-> TRUE])
       IN  health' =
              [health EXCEPT
                  !.pc = "done",
                  !.components = components,
                  !.reports = IF config.enable_vector_storage
                              THEN Put(@, "vector_db", weaviate_health) ELSE @,
                  !.pipeline_status = PipelineStatus(components)]
    /\ UNCHANGED <<isearch, schema, insert, adaptive, sem>>
    /\ UNCHANGED <<coreVars, storeVars>>

(***************************************************************************)
(* WeaviateService.create_schema                                           *)
(***************************************************************************)
\* the coroutines that call create_schema while the others are suspended
\* in theirs
SchemaCallers == 1..3

\* the vector store answers GET /v1/schema/CallTranscription with 200 when
\* the class exists and with 404 when not, POST /v1/schema with 200 when it
\* creates the class and with 422 when the class exists; or the request
\* fails
GetSchemaStatus(exists) == IF exists THEN "200" ELSE "404"
PostSchemaStatus(exists) == IF exists THEN "422" ELSE "200"

SchemaCall == [pc |-> "get", returned |-> "none", error |-> "none"]
SchemaReturn(value, error) ==
    [pc |-> "done", returned |-> value, error |-> error]

\* create_schema up to the answer to its GET
SchemaGet(i, answered) ==
    /\ schema.pc = "on"
    /\ schema.calls[i].pc = "get"
    /\ schema' =
          [schema EXCEPT
              !.calls[i] =
                  IF ~answered THEN SchemaReturn("False", "exception")
                  ELSE IF GetSchemaStatus(schema.exists) = "200"
                  THEN SchemaReturn("True", "none")
                  ELSE [@ EXCEPT !.pc = "post"]]
    /\ UNCHANGED <<isearch, health, insert, adaptive, sem>>
    /\ UNCHANGED <<coreVars, storeVars>>

\* create_schema from its POST to its return
SchemaPost(i, answered) ==
    /\ schema.pc = "on"
    /\ schema.calls[i].pc = "post"
    /\ LET status == PostSchemaStatus(schema.exists)
       IN  schema' =
              IF ~answered
              THEN [schema EXCEPT
                       !.calls[i] = SchemaReturn("False", "exception")]
              ELSE IF status = "200"
              THEN [schema EXCEPT
                       !.exists = TRUE,
                       !.created = @ + 1,
                       !.calls[i] = SchemaReturn("True", "none")]
              ELSE [schema EXCEPT
                       !.calls[i] = SchemaReturn("False", "Failed to create schema")]
    /\ UNCHANGED <<isearch, health, insert, adaptive, sem>>
    /\ UNCHANGED <<coreVars, storeVars>>

(***************************************************************************)
(* WeaviateService.add_transcription                                       *)
(***************************************************************************)
MaxRetries == 3
RetryDelay == 1

\* what a POST /v1/objects can do: answer 200, answer another status, fail
\* with an aiohttp.ClientError, or run into the total timeout, which raises
\* asyncio.TimeoutError, no ClientError
InsertReplies == {"200", "status_error", "client_error", "timeout"}

InsertCalled(data_is_dict) ==
    [pc |-> "schema", data_is_dict |-> data_is_dict, attempt |-> 0,
     trace |-> <<>>, pauses |-> <<>>, returned |-> "none"]

NeverLastAttempt(attempt) == FALSE

\* attempt == max_retries - 1
LastAttempt(attempt) == attempt = MaxRetries - 1

\* the next turn of "for attempt in range(max_retries)", or the end of the
\* function body when the range is used up
NextAttempt(ins) ==
    IF ins.attempt + 1 < MaxRetries
    THEN [ins EXCEPT !.pc = "post", !.attempt = @ + 1]
    ELSE [ins EXCEPT !.pc = "done", !.returned = "None"]

\* create_schema has returned, its value is dropped; the .get calls on
\* transcription_data
InsertStart ==
    /\ insert.pc = "schema"
    /\ schema.calls[1].pc = "done"
    /\ insert' =
          IF insert.data_is_dict
          THEN [insert EXCEPT !.pc = "post"]
          ELSE [insert EXCEPT !.pc = "done", !.returned = "False"]
    /\ UNCHANGED <<isearch, health, schema, adaptive, sem>>
    /\ UNCHANGED <<coreVars, storeVars>>

\* one insert request and what follows its answer, up to the next await
InsertPost(reply) ==
    /\ insert.pc = "post"
    /\ LET posted == [insert EXCEPT !.trace = Append(@, reply)]
       IN  insert' =
              IF reply = "200"
              THEN [posted EXCEPT !.pc = "done", !.returned = "True"]
              ELSE IF reply = "status_error"
              THEN IF LastAttempt(insert.attempt)
                   THEN [posted EXCEPT !.pc = "done", !.returned = "False"]
                   ELSE NextAttempt(posted)
              ELSE IF reply = "client_error"
              THEN IF LastAttempt(insert.attempt)
                   THEN [posted EXCEPT !.pc = "done", !.returned = "False"]
                   ELSE [posted EXCEPT !.pc = "sleep"]
              ELSE [posted EXCEPT !.pc = "done", !.returned = "False"]
    /\ UNCHANGED <<isearch, health, schema, adaptive, sem>>
    /\ UNCHANGED <<coreVars, storeVars>>

\* await asyncio.sleep(1) ends
InsertSleep ==
    /\ insert.pc = "sleep"
    /\ insert' =
          NextAttempt([insert EXCEPT !.trace = Append(@, "sleep"),
                                     !.pauses = Append(@, RetryDelay)])
    /\ UNCHANGED <<isearch, health, schema, adaptive, sem>>
    /\ UNCHANGED <<coreVars, storeVars>>

(***************************************************************************)
(* LLMOrchestrator._analyze_query_complexity, _calculate_adaptive_timeout  *)
(***************************************************************************)
\* A prompt is the sequence of its code points; the keyword lists are those
\* of the source, each pattern written as its code points.
\* simple_patterns: kama, mispar, 'how many', 'total', 'count', sakh hakol, besakh hakol
SimplePatterns ==
    {<<1499, 1502, 1492>>, <<1502, 1505, 1508, 1512>>,
     <<104, 111, 119, 32, 109, 97, 110, 121>>, <<116, 111, 116, 97, 108>>,
     <<99, 111, 117, 110, 116>>, <<1505, 1498, 32, 1492, 1499, 1500>>,
     <<1489, 1505, 1498, 32, 1492, 1499, 1500>>}
\* greeting_patterns: shalom, hi (he), 'hello', 'hi', ma shlomkha, 'how are you'
GreetingPatterns ==
    {<<1513, 1500, 1493, 1501>>, <<1492, 1497>>,
     <<104, 101, 108, 108, 111>>, <<104, 105>>,
     <<1502, 1492, 32, 1513, 1500, 1493, 1502, 1498>>,
     <<104, 111, 119, 32, 97, 114, 101, 32, 121, 111, 117>>}
\* medium_keywords: hatseg, 'show', 'display', 'list', reshima, mi, 'who', ma, 'what'
MediumKeywords ==
    {<<1492, 1510, 1490>>, <<115, 104, 111, 119>>,
     <<100, 105, 115, 112, 108, 97, 121>>, <<108, 105, 115, 116>>,
     <<1512, 1513, 1497, 1502, 1492>>, <<1502, 1497>>, <<119, 104, 111>>,
     <<1502, 1492>>, <<119, 104, 97, 116>>}
\* complex_keywords: 'analyze', 'analysis', 'summary', 'summarize', 'report', 'insights', 'compare', 'trends' and their Hebrew counterparts
ComplexKeywords ==
    {<<1504, 1514, 1495>>, <<1504, 1497, 1514, 1493, 1495>>,
     <<97, 110, 97, 108, 121, 122, 101>>,
     <<97, 110, 97, 108, 121, 115, 105, 115>>,
     <<1505, 1497, 1499, 1493, 1501>>, <<1505, 1499, 1501>>,
     <<115, 117, 109, 109, 97, 114, 121>>,
     <<115, 117, 109, 109, 97, 114, 105, 122, 101>>, <<1491, 1493, 1495>>,
     <<114, 101, 112, 111, 114, 116>>,
     <<1514, 1493, 1489, 1504, 1493, 1514>>,
     <<105, 110, 115, 105, 103, 104, 116, 115>>,
     <<1492, 1513, 1493, 1493, 1492>>,
     <<99, 111, 109, 112, 97, 114, 101>>,
     <<1502, 1490, 1502, 1493, 1514>>, <<116, 114, 101, 110, 100, 115>>}

\* str.lower() of a code point, str.strip() of a text
Lower(c) == IF c \in 65..90 THEN c + 32 ELSE c
Whitespace == {9, 10, 32}
Strip(text) ==
    LET inked == {i \in 1..Len(text) : text[i] \notin Whitespace}
    IN  IF inked = {} THEN <<>>
        ELSE SubSeq(text,
                    CHOOSE i \in inked : \A j \in inked : i <= j,
                    CHOOSE i \in inked : \A j \in inked : i >= j)
PromptClean(prompt) ==
    LET stripped == Strip(prompt)
    IN  [i \in 1..Len(stripped) |-> Lower(stripped[i])]

\* pattern in text
Contains(text, pattern) ==
    \E i \in 1..(Len(text) - Len(pattern) + 1) :
        SubSeq(text, i, i + Len(pattern) - 1) = pattern
AnyIn(patterns, text) == \E pattern \in patterns : Contains(text, pattern)

\* _analyze_query_complexity; the score in tenths
AnalyzeQueryComplexity(prompt) ==
    LET prompt_clean == PromptClean(prompt)
    IN  IF AnyIn(SimplePatterns, prompt_clean) THEN 10
        ELSE IF AnyIn(GreetingPatterns, prompt_clean) THEN 5
        ELSE IF AnyIn(MediumKeywords, prompt_clean) THEN 15
        ELSE IF AnyIn(ComplexKeywords, prompt_clean) THEN 25
        ELSE IF Len(prompt_clean) <= 30 THEN 10
        ELSE IF Len(prompt_clean) <= 80 THEN 15
        ELSE 20

\* _calculate_adaptive_timeout of a score in tenths; int() truncates
CalculateAdaptiveTimeout(complexity_score, base_timeout) ==
    IF complexity_score >= 25 THEN (base_timeout * 25) \div 10
    ELSE IF complexity_score >= 20 THEN (base_timeout * 20) \div 10
    ELSE IF complexity_score >= 15 THEN (base_timeout * 15) \div 10
    ELSE base_timeout

\* self._timeouts['ollama_timeout']: OLLAMA_TIMEOUT, or 15
DefaultOllamaTimeout == 15
BaseTimeouts == {DefaultOllamaTimeout, 7}

\* prompts of up to MaxWords words: hi, hello, count, total, show, list,
\* report, trends, this, ok, History, and kama, ma, shalom, sikum; and
\* prompts without a keyword, of the lengths around the thresholds
MaxWords == 2
Words ==
    {<<104, 105>>, <<104, 101, 108, 108, 111>>, <<99, 111, 117, 110, 116>>,
     <<116, 111, 116, 97, 108>>, <<115, 104, 111, 119>>,
     <<108, 105, 115, 116>>, <<114, 101, 112, 111, 114, 116>>,
     <<116, 114, 101, 110, 100, 115>>, <<116, 104, 105, 115>>, <<111, 107>>,
     <<72, 105, 115, 116, 111, 114, 121>>, <<1499, 1502, 1492>>,
     <<1502, 1492>>, <<1513, 1500, 1493, 1501>>,
     <<1505, 1497, 1499, 1493, 1501>>}
RECURSIVE Join(_)
Join(words) ==
    IF Len(words) = 0 THEN <<>>
    ELSE IF Len(words) = 1 THEN words[1]
    ELSE words[1] \o <<32>> \o Join(Tail(words))
Filler(n) == [i \in 1..n |-> 122]
TimeoutPrompts ==
    {Join(words) : words \in UNION {[1..n -> Words] : n \in 1..MaxWords}}
    \cup {Filler(n) : n \in {0, 30, 31, 80, 81}}
    \cup {Filler(30) \o <<32>>, <<32>> \o Filler(80)}

\* the two functions, one after the other
AdaptiveTimeout ==
    /\ adaptive.pc = "called"
    /\ LET score == AnalyzeQueryComplexity(adaptive.prompt)
       IN  adaptive' =
              [adaptive EXCEPT
                  !.pc = "done",
                  !.complexity_score = score,
                  !.timeout =
                      CalculateAdaptiveTimeout(score, adaptive.base_timeout)]
    /\ UNCHANGED <<isearch, health, schema, insert, sem>>
    /\ UNCHANGED <<coreVars, storeVars>>

(***************************************************************************)
(* LLMOrchestrator.get_stats                                               *)
(***************************************************************************)
\* self.stats['huggingface_requests'] is read first, with self.stats being
\* the dict that __init__ made
OrchGetStats(st) ==
    IF "huggingface_requests" \notin DOMAIN st
    THEN [kind |-> "raise", error |-> "KeyError"]
    ELSE [kind |-> "return",
          value |-> [stats |-> st,
                     total_requests |->
                         st["huggingface_requests"] + st.bedrock_requests]]

\* get_stats, called between any two steps of the coroutines
GetStats ==
    /\ gpc # "off"
    /\ gstats' = OrchGetStats(ostats)
    /\ UNCHANGED <<grequest, gpc, gindex, gerrors, gactive, gattempts, goutcome,
                   gtimeout>>
    /\ UNCHANGED <<config, pstats, ostats, callVars, batchVars, summVars,
                   serviceVars>>

(***************************************************************************)
(* OllamaService._get_semaphore and the rate limiting of generate_response *)
(***************************************************************************)
\* The requests the process serves and the event loops they run in: the
\* coroutines of one HTTP request share a loop, and each HTTP request that
\* a thread of the server handles runs in a loop of its own.
MaxRequests == 3
MaxConcurrent == 2
SemRequests == 1..MaxRequests
EventLoops == {"loop_a", "loop_b"}

\* _get_semaphore: the semaphore stored under the running loop, made with
\* max_concurrent permits when the loop has none yet
GetSemaphore(semaphores, loop, max_concurrent) ==
    IF loop \in DOMAIN semaphores THEN semaphores
    ELSE Put(semaphores, loop, max_concurrent)

\* how a call can leave "async with semaphore": with the response, or by
\* the raise of a non-200 answer, of an exception, of a timeout
SemOutcomes == {"return", "non_200", "exception", "timeout"}

\* a semaphore that is given back only by a call that returns
ReleaseOnReturn(value, ending) ==
    IF ending = "return" THEN value + 1 ELSE value

\* the exit of "async with semaphore": release(), whatever ends the block
Release(value, ending) == value + 1

\* the semaphore of a request: the local adapter's one for the running
\* loop, the remote adapter's one of the instance
SemaphoreOf(r) ==
    IF sem.backend = "huggingface" THEN "instance" ELSE sem.requests[r].loop

\* generate_response after a cache miss: _get_semaphore, then the entry of
\* "async with semaphore", which takes a permit or suspends.  The remote
\* adapter's semaphore is made in __init__, outside the loops that use it:
\* an acquire that has to wait there suspends or raises RuntimeError,
\* depending on the loop and on the version of asyncio.
SemEnter(r, suspends) ==
    /\ sem.pc = "on"
    /\ sem.requests[r].pc = "called"
    /\ sem.backend = "huggingface" \/ suspends
    /\ LET loop == SemaphoreOf(r)
           semaphores == GetSemaphore(sem.semaphores, loop, sem.max_concurrent)
       IN  sem' =
              IF semaphores[loop] > 0
              THEN [sem EXCEPT
                       !.semaphores = [semaphores EXCEPT ![loop] = @ - 1],
                       !.requests[r].pc = "outstanding"]
              ELSE IF suspends
              THEN [sem EXCEPT
                       !.semaphores = semaphores,
                       !.requests[r].pc = "waiting"]
              ELSE [sem EXCEPT
                       !.semaphores = semaphores,
                       !.requests[r].pc = "done"]
    /\ UNCHANGED <<isearch, health, schema, insert, adaptive>>
    /\ UNCHANGED <<coreVars, storeVars>>

\* a suspended acquire is resumed once its semaphore has a permit
SemResume(r) ==
    /\ sem.pc = "on"
    /\ sem.requests[r].pc = "waiting"
    /\ LET loop == SemaphoreOf(r)
       IN  /\ sem.semaphores[loop] > 0
           /\ sem' = [sem EXCEPT !.semaphores[loop] = @ - 1,
                                 !.requests[r].pc = "outstanding",
                                 !.resumed = TRUE]
    /\ UNCHANGED <<isearch, health, schema, insert, adaptive>>
    /\ UNCHANGED <<coreVars, storeVars>>

\* the POST ends, in a return or a raise, and "async with" releases
SemExit(r, ending) ==
    /\ sem.pc = "on"
    /\ sem.requests[r].pc = "outstanding"
    /\ sem' = [sem EXCEPT !.semaphores[SemaphoreOf(r)] = Release(@, ending),
                          !.requests[r].pc = "done",
                          !.timed_out = @ \/ ending = "timeout"]
    /\ UNCHANGED <<isearch, health, schema, insert, adaptive>>
    /\ UNCHANGED <<coreVars, storeVars>>

(***************************************************************************)
(* HuggingFaceService.generate_response: the request it sends              *)
(***************************************************************************)
\* _format_chat_prompt: the Llama 3.1 chat template around the prompt, as
\* code points; system_prompt <<>> stands for None and for ""
FormatChatPrompt(prompt, system_prompt) ==
    LET
        UserHead ==
            <<60, 124, 98, 101, 103, 105, 110, 95, 111, 102, 95, 116, 101, 120,
            116, 124, 62, 60, 124, 115, 116, 97, 114, 116, 95, 104, 101, 97, 100,
            101, 114, 95, 105, 100, 124, 62, 117, 115, 101, 114, 60, 124, 101,
            110, 100, 95, 104, 101, 97, 100, 101, 114, 95, 105, 100, 124, 62, 10>>
        SystemHead ==
            <<60, 124, 98, 101, 103, 105, 110, 95, 111, 102, 95, 116, 101, 120,
            116, 124, 62, 60, 124, 115, 116, 97, 114, 116, 95, 104, 101, 97, 100,
            101, 114, 95, 105, 100, 124, 62, 115, 121, 115, 116, 101, 109, 60,
            124, 101, 110, 100, 95, 104, 101, 97, 100, 101, 114, 95, 105, 100,
            124, 62, 10>>
        UserAfterSystem ==
            <<60, 124, 101, 111, 116, 95, 105, 100, 124, 62, 60, 124, 115, 116,
            97, 114, 116, 95, 104, 101, 97, 100, 101, 114, 95, 105, 100, 124, 62,
            117, 115, 101, 114, 60, 124, 101, 110, 100, 95, 104, 101, 97, 100,
            101, 114, 95, 105, 100, 124, 62, 10>>
        AssistantHead ==
            <<60, 124, 101, 111, 116, 95, 105, 100, 124, 62, 60, 124, 115, 116,
            97, 114, 116, 95, 104, 101, 97, 100, 101, 114, 95, 105, 100, 124, 62,
            97, 115, 115, 105, 115, 116, 97, 110, 116, 60, 124, 101, 110, 100, 95,
            104, 101, 97, 100, 101, 114, 95, 105, 100, 124, 62, 10>>
        RespondInHebrew ==
            <<10, 10, 82, 101, 115, 112, 111, 110, 100, 32, 105, 110, 32, 72, 101,
            98, 114, 101, 119, 46>>
        HebrewOnly ==
            <<10, 10, 73, 77, 80, 79, 82, 84, 65, 78, 84, 58, 32, 82, 101, 115,
            112, 111, 110, 100, 32, 105, 110, 32, 72, 101, 98, 114, 101, 119, 32,
            111, 110, 108, 121, 46>>
    IN
    IF HasHebrew(prompt)
    THEN IF system_prompt # <<>>
         THEN SystemHead \o system_prompt \o HebrewOnly \o UserAfterSystem
              \o prompt \o AssistantHead
         ELSE UserHead \o prompt \o RespondInHebrew \o AssistantHead
    ELSE IF system_prompt # <<>>
         THEN SystemHead \o system_prompt \o UserAfterSystem \o prompt
              \o AssistantHead
         ELSE UserHead \o prompt \o AssistantHead

\* HuggingFaceConfig: MODEL_MAX_TOKENS and MODEL_TEMPERATURE (in tenths)
ConfigMaxTokens == 2048
ConfigTemperature == 7
HebrewTokenFactor == 5
HebrewTokenCap == 2048
HebrewTemperatureFloor == 8

Min(a, b) == IF a <= b THEN a ELSE b
Max(a, b) == IF a >= b THEN a ELSE b

\* temperature None
NoTemperature == -1

\* adjusted_max_tokens
AdjustedMaxTokens(has_hebrew, max_tok) ==
    IF has_hebrew THEN Min(max_tok * HebrewTokenFactor, HebrewTokenCap)
    ELSE max_tok

\* payload["parameters"]: temperatures, top_p and the penalty in tenths,
\* hundredths and tenths
Parameters(has_hebrew, max_tok, temp) ==
    [max_new_tokens |-> AdjustedMaxTokens(has_hebrew, max_tok),
     temperature |-> IF has_hebrew THEN Max(temp, HebrewTemperatureFloor)
                     ELSE temp,
     top_p |-> IF has_hebrew THEN 95 ELSE 90,
     top_k |-> IF has_hebrew THEN 100 ELSE 50,
     repetition_penalty |-> IF has_hebrew THEN 11 ELSE 12,
     stops |-> IF has_hebrew THEN 1 ELSE 2]

\* the arguments of the calls
HFPrompts == {<<104, 105>>, <<1513, 1500, 1493, 1501>>, <<104, 105, 32, 1513>>}
HFSystemPrompts == {<<>>, <<72, 101, 108, 112>>, <<1506, 1494, 1512>>}
MaxTokensArgs == {0, 1, 409, 410, 2048, 2049, 4096}
TemperatureArgs == {NoTemperature, 0, 7, 9}

\* generate_response up to the payload
HFPayload ==
    /\ hf.pc = "called"
    /\ LET formatted_prompt == FormatChatPrompt(hf.prompt, hf.system_prompt)
           has_hebrew == HasHebrew(formatted_prompt)
           \* temperature if temperature is not None else the configured
           temp == IF hf.temperature = NoTemperature THEN ConfigTemperature
                   ELSE hf.temperature
           \* max_tokens or the configured (0 stands for None too)
           max_tok == IF hf.max_tokens = 0 THEN ConfigMaxTokens
                      ELSE hf.max_tokens
       IN  hf' = [hf EXCEPT !.pc = "sent",
                            !.has_hebrew = has_hebrew,
                            !.parameters = Parameters(has_hebrew, max_tok,
                                                      temp)]
    /\ UNCHANGED <<cleaned, racers, loader>>
    /\ UNCHANGED restVars

\* the next call
HFCall ==
    /\ hf.pc = "sent"
    /\ \E prompt \in HFPrompts, system_prompt \in HFSystemPrompts,
          max_tokens \in MaxTokensArgs, temperature \in TemperatureArgs :
           hf' = [pc |-> "called", prompt |-> prompt,
                  system_prompt |-> system_prompt, max_tokens |-> max_tokens,
                  temperature |-> temperature, has_hebrew |-> FALSE,
                  parameters |-> Parameters(FALSE, 0, 0)]
    /\ UNCHANGED <<cleaned, racers, loader>>
    /\ UNCHANGED restVars

(***************************************************************************)
(* HuggingFaceService._validate_and_clean_response                         *)
(***************************************************************************)
\* An output is the sequence of its words (content.split()); a word is a
\* number, and Artifact is the word "<|eot_id|>" standing alone.
Artifact == 0
MaxUnitLen == 3
RepetitionWords == 20
RepetitionThreshold == 5
CleanWordsKept == 100
FallbackWordsKept == 50
OutputWords == {Artifact, 1, 2}
WordCounts == {0, 15, 20, 21, 24}
Units == UNION {[1..n -> OutputWords] : n \in 1..MaxUnitLen}
OutputHeads == {<<>>, <<4>>}
\* the first n words of a head followed by a unit repeated
Repeated(head, unit, n) ==
    [i \in 1..n |-> IF i <= Len(head) THEN head[i]
                    ELSE unit[((i - Len(head) - 1) % Len(unit)) + 1]]
Outputs == {Repeated(head, unit, n) :
                head \in OutputHeads, unit \in Units, n \in WordCounts}

\* ' '.join(words[i:i+3]), with i counted from 1
Phrase(words, i) == SubSeq(words, i, i + 2)

\* max(phrase_counts.values()) if phrase_counts else 0
MaxRepetition(words) ==
    LET starts == 1..(Len(words) - 2)
        count(i) == Cardinality({j \in starts :
                                    Phrase(words, j) = Phrase(words, i)})
    IN  IF starts = {} THEN 0
        ELSE CHOOSE c \in {count(i) : i \in starts} :
                 \A i \in starts : count(i) <= c

\* the loop that fills clean_words: every new phrase is appended whole,
\* until a phrase is met that was seen
RECURSIVE CleanWords(_, _, _, _)
CleanWords(words, i, seen_phrases, clean_words) ==
    IF i > Len(words) - 2 \/ Phrase(words, i) \in seen_phrases
    THEN clean_words
    ELSE CleanWords(words, i + 1, seen_phrases \cup {Phrase(words, i)},
                    clean_words \o Phrase(words, i))

FirstWords(words, n) == SubSeq(words, 1, Min(n, Len(words)))

\* the words of the returned content
ValidateAndCleanResponse(words) ==
    LET clean_words == CleanWords(words, 1, {}, <<>>)
        kept == IF Len(words) > RepetitionWords
                   /\ MaxRepetition(words) > RepetitionThreshold
                THEN IF clean_words # <<>>
                     THEN FirstWords(clean_words, CleanWordsKept)
                     ELSE FirstWords(words, FallbackWordsKept)
                ELSE words
    IN  SelectSeq(kept, LAMBDA word : word # Artifact)

CleanResponse ==
    /\ cleaned.pc = "called"
    /\ cleaned' = [cleaned EXCEPT !.pc = "returned",
                       !.returned = ValidateAndCleanResponse(cleaned.words)]
    /\ UNCHANGED <<hf, racers, loader>>
    /\ UNCHANGED restVars

\* the next output to clean
CleanNext ==
    /\ cleaned.pc = "returned"
    /\ \E words \in Outputs :
           cleaned' = [pc |-> "called", words |-> words, returned |-> <<>>]
    /\ UNCHANGED <<hf, racers, loader>>
    /\ UNCHANGED restVars

(***************************************************************************)
(* OllamaService.generate_response: calls running at the same time         *)
(***************************************************************************)
\* The coroutines of one event loop (the tasks of a batch, say) call
\* generate_response; a call runs to its next await before another does.
MaxRacers == 3
Racers == 1..MaxRacers
RaceReplies == {"200", "404", "500", "timeout"}
RaceCall == [state |-> "idle", prompt |-> 0, sent |-> 0, outcome |-> "none"]

\* the rest of the state stays as it is
RaceFrame ==
    /\ UNCHANGED <<max_size, now, cache_op, cache_enabled,
                   hebrew_classifications, ocalls, olast, outdated>>
    /\ UNCHANGED <<coreVars, embVars, mergeVars>>
    /\ UNCHANGED <<isearch, health, schema, insert, adaptive, sem>>
    /\ UNCHANGED <<hf, cleaned, loader, tenant>>

\* generate_response up to "async with semaphore": the cache lookup, a
\* return on a hit, and on a miss the semaphore, taken at once or awaited
RaceStart(i, prompt) ==
    /\ racers.pc = "on"
    /\ racers.calls[i].state = "idle"
    /\ LET flag == ClassificationsAvailable(hebrew_classifications)
           got  == LookUp(cache_enabled, cache, RequestKey(prompt, flag), now)
           call == [racers.calls[i] EXCEPT !.prompt = prompt]
       IN  /\ cache' = got.cache
           /\ racers' =
                 IF got.response # NoResponse
                 THEN [racers EXCEPT !.calls[i] =
                          [call EXCEPT !.state = "done", !.outcome = "cached"]]
                 ELSE IF racers.permits > 0
                 THEN [racers EXCEPT !.permits = @ - 1, !.calls[i] =
                          [call EXCEPT !.state = "posted", !.sent = 1]]
                 ELSE [racers EXCEPT !.calls[i] =
                          [call EXCEPT !.state = "waiting"]]
    /\ UNCHANGED request_count
    /\ RaceFrame

\* a call suspended at the semaphore gets its permit and sends its request
RaceAcquire(i) ==
    /\ racers.pc = "on"
    /\ racers.calls[i].state = "waiting"
    /\ racers.permits > 0
    /\ racers' = [racers EXCEPT !.permits = @ - 1,
                                !.calls[i].state = "posted",
                                !.calls[i].sent = 1]
    /\ UNCHANGED <<cache, request_count>>
    /\ RaceFrame

\* the answer to the request for self.hebrew_model
RaceReply(i, reply) ==
    /\ racers.pc = "on"
    /\ racers.calls[i].state = "posted"
    /\ LET call     == racers.calls[i]
           flag     == ClassificationsAvailable(hebrew_classifications)
           response == LLMResponse(i, call.prompt, HebrewModel, now, now,
                                   FALSE, flag)
       IN  /\ cache' = SetAfterReply(cache_enabled, cache, reply,
                                     RequestKey(call.prompt, flag), response,
                                     now, max_size)
           /\ request_count' = IF reply = "200" THEN request_count + 1
                               ELSE request_count
           /\ racers' =
                 IF reply = "200"
                 THEN [racers EXCEPT !.permits = @ + 1, !.calls[i] =
                          [call EXCEPT !.state = "done", !.outcome = "return"]]
                 ELSE IF reply = "404"
                 THEN [racers EXCEPT !.calls[i] =
                          [call EXCEPT !.state = "fallback"]]
                 ELSE [racers EXCEPT !.permits = @ + 1, !.calls[i] =
                          [call EXCEPT !.state = "done", !.outcome = "raise"]]
    /\ RaceFrame

\* the answer to the request for self.config.model_name
RaceFallbackReply(i, reply) ==
    /\ racers.pc = "on"
    /\ racers.calls[i].state = "fallback"
    /\ request_count' = IF reply = "200" THEN request_count + 1
                        ELSE request_count
    /\ racers' = [racers EXCEPT !.permits = @ + 1, !.calls[i] =
                     [@ EXCEPT !.state = "done",
                               !.outcome = IF reply = "200" /\ ~cache_enabled
                                           THEN "return" ELSE "raise"]]
    /\ UNCHANGED cache
    /\ RaceFrame

(***************************************************************************)
(* intelligent_search for one customer: whose records it returns           *)
(***************************************************************************)
\* The records of the calls, each of a customer; the vector store and the
\* similarity index of the process hold some of them.
Customers == {"c1", "c2"}
NoCustomer == ""
Records == [callId : {<<1>>, <<2>>}, customerId : Customers]
RecordLists == {<<>>} \cup {<<r>> : r \in Records}
                   \cup {pair \in Records \X Records : pair[1] # pair[2]}
RecordText(record) ==
    record.callId \o (IF record.customerId = "c1" THEN <<1>> ELSE <<2>>)

\* semantic_search: the customerId operand of the where clause is there
\* when customer_id is truthy; the store answers with the objects that
\* match, each with all the fields the query asks for
SemanticSearch(stored, customer_id) ==
    LET matching ==
            SelectSeq(stored, LAMBDA record :
                customer_id = NoCustomer \/ record.customerId = customer_id)
    IN  [i \in 1..Len(matching) |->
            [callId |-> matching[i].callId,
             customerId |-> matching[i].customerId,
             transcriptionText |-> RecordText(matching[i]),
             similarity_score |-> 1]]

\* search_similar: every indexed text that is near enough, with the
\* metadata it was indexed with; there is no callId in such a hit
SearchSimilar(indexed) ==
    [i \in 1..Len(indexed) |->
        [callId |-> <<>>, text |-> RecordText(indexed[i]),
         customerId |-> indexed[i].customerId, similarity_score |-> 1]]

\* Step 3: semantic_search with customer_context.get('customerId'), [] when
\* the request fails
TenantVector(ok) ==
    /\ tenant.pc = "vector"
    /\ config.enable_vector_storage \/ ok
    /\ tenant' =
          [tenant EXCEPT
              !.pc = "faiss",
              !.vector_results =
                  IF config.enable_vector_storage /\ ok
                  THEN SemanticSearch(tenant.stored, tenant.customer_id)
                  ELSE <<>>]
    /\ UNCHANGED <<hf, cleaned, racers, loader>>
    /\ UNCHANGED <<coreVars, cacheVars, ollamaVars, embVars, mergeVars>>
    /\ UNCHANGED <<isearch, health, schema, insert, adaptive, sem>>

\* Step 4: search_similar, [] when it fails; Step 5: the merge
TenantFaiss(ok) ==
    /\ tenant.pc = "faiss"
    /\ config.enable_embeddings \/ ok
    /\ LET similar == IF config.enable_embeddings /\ ok
                      THEN SearchSimilar(tenant.indexed) ELSE <<>>
       IN  tenant' =
              [tenant EXCEPT
                  !.pc = "done",
                  !.faiss_results = similar,
                  !.results = MergeResult(tenant.vector_results, similar)]
    /\ UNCHANGED <<hf, cleaned, racers, loader>>
    /\ UNCHANGED <<coreVars, cacheVars, ollamaVars, embVars, mergeVars>>
    /\ UNCHANGED <<isearch, health, schema, insert, adaptive, sem>>

(***************************************************************************)
(* EmbeddingService.initialize_model called concurrently                   *)
(***************************************************************************)
\* Calls of initialize_model and of generate_embedding, each in an event
\* loop.  Calls of one loop give way to each other only at an await; calls
\* of two loops run in two threads and interleave at every statement.
MaxLoaderCalls == 3
LoaderCalls == 1..MaxLoaderCalls
LoaderKinds == {"initialize_model", "generate_embedding"}
LoaderCall(loop, kind) ==
    [loop |-> loop, kind |-> kind, pc |-> "called", waited_on |-> 0,
     load |-> "none", late |-> FALSE, returned |-> "none"]

\* a call may take a step unless a call of its loop is between two awaits
CanRun(c) ==
    /\ loader.pc = "on"
    /\ \A d \in LoaderCalls \ {c} :
           loader.calls[d].loop = loader.calls[c].loop =>
               loader.calls[d].pc \notin {"claimed", "publishing"}

\* what the call hands back once initialize_model has returned value:
\* initialize_model that value; generate_embedding ignores it and encodes,
\* which raises when self.model is None
Returned(kind, value, model) ==
    IF kind = "initialize_model" THEN (IF value THEN "True" ELSE "False")
    ELSE IF model THEN "embedded" ELSE "raised"

\* the tests at the head: loaded already, a load in progress, or neither
LoaderCheck(c) ==
    /\ CanRun(c)
    /\ loader.calls[c].pc = "called"
    /\ loader' =
          IF loader.model_loaded
          THEN [loader EXCEPT !.calls[c].pc = "done",
                   !.calls[c].returned =
                       Returned(loader.calls[c].kind, TRUE, loader.model)]
          ELSE IF loader.loading
          THEN [loader EXCEPT !.calls[c].pc = "waiting",
                              !.calls[c].waited_on = loader.current]
          ELSE [loader EXCEPT !.calls[c].pc = "claimed"]
    /\ UNCHANGED <<hf, cleaned, racers, tenant>>
    /\ UNCHANGED restVars

\* self._loading = True, then the load is handed to the executor
LoaderClaim(c) ==
    /\ CanRun(c)
    /\ loader.calls[c].pc = "claimed"
    /\ loader' = [loader EXCEPT !.loading = TRUE, !.current = c,
                                !.calls[c].pc = "loading",
                                !.calls[c].late = loader.succeeded]
    /\ UNCHANGED <<hf, cleaned, racers, tenant>>
    /\ UNCHANGED restVars

\* the load ends: self.model is assigned when it succeeded, the finally
\* clause clears _loading, a failure returns False
LoaderLoad(c, load_ok) ==
    /\ CanRun(c)
    /\ loader.calls[c].pc = "loading"
    /\ loader' =
          IF load_ok
          THEN [loader EXCEPT !.loading = FALSE, !.model = TRUE,
                              !.calls[c].load = "succeeded",
                              !.calls[c].pc = "publishing"]
          ELSE [loader EXCEPT !.loading = FALSE,
                   !.calls[c].load = "failed",
                   !.calls[c].pc = "done",
                   !.calls[c].returned =
                       Returned(loader.calls[c].kind, FALSE, loader.model)]
    /\ UNCHANGED <<hf, cleaned, racers, tenant>>
    /\ UNCHANGED restVars

\* self.model_loaded = True, the new index, return True
LoaderPublish(c) ==
    /\ CanRun(c)
    /\ loader.calls[c].pc = "publishing"
    /\ loader' = [loader EXCEPT !.model_loaded = TRUE, !.succeeded = TRUE,
                     !.calls[c].pc = "done",
                     !.calls[c].returned =
                         Returned(loader.calls[c].kind, TRUE, TRUE)]
    /\ UNCHANGED <<hf, cleaned, racers, tenant>>
    /\ UNCHANGED restVars

\* while self._loading: await asyncio.sleep(0.1), seen to end; then
\* return self.model_loaded
LoaderPoll(c) ==
    /\ CanRun(c)
    /\ loader.calls[c].pc = "waiting"
    /\ ~loader.loading
    /\ loader' = [loader EXCEPT !.calls[c].pc = "done",
                     !.calls[c].returned =
                         Returned(loader.calls[c].kind, loader.model_loaded,
                                  loader.model)]
    /\ UNCHANGED <<hf, cleaned, racers, tenant>>
    /\ UNCHANGED restVars

(***************************************************************************)
(* Specifications                                                          *)
(***************************************************************************)
CallIdle ==
    /\ call_data = NotDictCall
    /\ pc = "idle"
    /\ tasks = NoTasks
    /\ results = EmptyDict
    /\ errors = <<>>
    /\ vector_data = EmptyDict
    /\ outcome = NoOutcome
    /\ stages = NoStages

BatchIdle ==
    /\ calls_data = <<>>
    /\ bpc = "off"
    /\ semaphore = 0
    /\ btasks = <<>>
    /\ bresults = <<>>
    /\ boutcome = NoOutcome

SummarizeIdle ==
    /\ srequest = NoRequest
    /\ spc = "off"
    /\ sadapter = [kind |-> "not_called"]
    /\ soutcome = NoOutcome
    /\ backend = [up |-> TRUE, reply |-> NoReply]

GenerateIdle ==
    /\ grequest = NoGenerate
    /\ gpc = "off"
    /\ gindex = 0
    /\ gerrors = <<>>
    /\ gactive = {}
    /\ gattempts = <<>>
    /\ goutcome = NoOutcome
    /\ gtimeout = [env |-> NoEnv, applied |-> 0]
    /\ gstats = NoOutcome

CacheIdle ==
    /\ cache = <<>>
    /\ max_size = 1
    /\ now = 0
    /\ cache_op = NoCacheOp

OllamaIdle ==
    /\ cache_enabled = TRUE
    /\ hebrew_classifications = <<>>
    /\ request_count = 0
    /\ ocalls = <<>>
    /\ olast = IdleCall
    /\ outdated = {}

EmbeddingIdle ==
    /\ cache_embeddings = TRUE
    /\ model_loaded = FALSE
    /\ embedding_cache = <<>>
    /\ faiss_index = NoIndex
    /\ indexed_texts = <<>>
    /\ index_metadata = <<>>
    /\ elast = NoBatch

MergeIdle ==
    /\ vector_results = <<>>
    /\ faiss_results = <<>>
    /\ merged = <<>>
    /\ mpc = "off"

\* the operations below that are not running, but for those named
Off == [pc |-> "off"]
OpsOff(running) ==
    /\ IF "isearch" \in running THEN TRUE ELSE isearch = Off
    /\ IF "health" \in running THEN TRUE ELSE health = Off
    /\ IF "schema" \in running THEN TRUE ELSE schema = Off
    /\ IF "insert" \in running THEN TRUE ELSE insert = Off
    /\ IF "adaptive" \in running THEN TRUE ELSE adaptive = Off
    /\ IF "sem" \in running THEN TRUE ELSE sem = Off
    /\ IF "hf" \in running THEN TRUE ELSE hf = Off
    /\ IF "cleaned" \in running THEN TRUE ELSE cleaned = Off
    /\ IF "racers" \in running THEN TRUE ELSE racers = Off
    /\ IF "loader" \in running THEN TRUE ELSE loader = Off
    /\ IF "tenant" \in running THEN TRUE ELSE tenant = Off
OpsIdle == OpsOff({})

ServicesIdle ==
    /\ CacheIdle
    /\ OllamaIdle
    /\ EmbeddingIdle
    /\ MergeIdle
    /\ OpsIdle

ServiceInit ==
    /\ pstats = NoStats
    /\ ostats = NoOrchStats

\* one process_call
Init ==
    /\ ServiceInit
    /\ config \in Configs
    /\ call_data \in Calls
    /\ pc = "received"
    /\ tasks = NoTasks
    /\ results = EmptyDict
    /\ errors = <<>>
    /\ vector_data = EmptyDict
    /\ outcome = NoOutcome
    /\ stages = NoStages
    /\ BatchIdle /\ SummarizeIdle /\ GenerateIdle /\ ServicesIdle

Next ==
    \/ ProcessCallStart
    \/ \E t \in TaskNames : TaskStart(t)
    \/ \E ok \in BOOLEAN : EmbeddingTaskResolve(ok)
    \/ \E reply \in Replies : LlmTaskResolve(reply)
    \/ GatherReturn
    \/ \E ok \in BOOLEAN : VectorWriteReturn(ok)

Spec == Init /\ [][Next]_vars

\* one process_batch
BatchCalls ==
    {cd \in Calls : cd.language # "en" /\ (cd.language = NULL => cd.kind = "not_dict")}
BatchReplies ==
    {r \in Replies : r.kind = "conn_error" \/ (r.kind = "json" /\ r.data = FullSummary)}
BatchConfigs ==
    {c \in Configs : c.enable_embeddings = c.enable_llm
                     /\ c.enable_llm = c.enable_vector_storage}

InitBatch ==
    /\ ServiceInit
    /\ config \in BatchConfigs
    /\ calls_data \in UNION {[1..n -> BatchCalls] : n \in 0..MaxBatch}
    /\ bpc = "idle"
    /\ semaphore = 0
    /\ btasks = <<>>
    /\ bresults = <<>>
    /\ boutcome = NoOutcome
    /\ CallIdle /\ SummarizeIdle /\ GenerateIdle /\ ServicesIdle

NextBatch ==
    \/ BatchStart
    \/ \E i \in 1..Len(calls_data) : BatchTaskAcquire(i)
    \/ \E i \in 1..Len(calls_data), embOk \in BOOLEAN, reply \in BatchReplies,
          vecOk \in BOOLEAN, embFirst \in BOOLEAN :
            BatchTaskFinish(i, embOk, reply, vecOk, embFirst)
    \/ BatchReturn

SpecBatch == InitBatch /\ [][NextBatch]_vars

\* one summarize_call of the orchestrator
InitSummarize ==
    /\ ServiceInit
    /\ config \in {c \in Configs : c.batch_size = 1 /\ c \in BatchConfigs
                                   /\ c.enable_llm}
    /\ srequest \in SummarizeRequests
    /\ spc = "idle"
    /\ sadapter = [kind |-> "not_called"]
    /\ soutcome = NoOutcome
    /\ backend \in [up : BOOLEAN, reply : {NoReply}]
    /\ CallIdle /\ BatchIdle /\ GenerateIdle /\ ServicesIdle

NextSummarize ==
    \/ SummarizeStart
    \/ \E reply \in Replies : SummarizeResume(reply)

SpecSummarize == InitSummarize /\ [][NextSummarize]_vars

\* one generate_response of the orchestrator
InitGenerate ==
    /\ ServiceInit
    /\ config \in {c \in Configs : c.batch_size = 1 /\ c \in BatchConfigs
                                   /\ c.enable_llm}
    /\ grequest \in GenerateRequests
    /\ gpc = "idle"
    /\ gindex = 0
    /\ gerrors = <<>>
    /\ gactive = {}
    /\ gattempts = <<>>
    /\ goutcome = NoOutcome
    /\ gtimeout \in [env : OllamaTimeoutEnvs, applied : {0}]
    /\ gstats = NoOutcome
    /\ CallIdle /\ BatchIdle /\ SummarizeIdle /\ ServicesIdle

NextGenerate ==
    \/ GenerateStart
    \/ \E out \in AdapterOutcomes, fast \in BOOLEAN : GenerateResume(out, fast)
    \/ GetStats

SpecGenerate == InitGenerate /\ [][NextGenerate]_vars

\* an InferenceCache from its construction on
InitCache ==
    /\ ServiceInit
    /\ config \in {c \in Configs : c.batch_size = 1 /\ c \in BatchConfigs
                                   /\ c.enable_llm}
    /\ cache = <<>>
    /\ max_size \in 1..MaxCacheSize
    /\ now = 0
    /\ cache_op = NoCacheOp
    /\ CallIdle /\ BatchIdle /\ SummarizeIdle /\ GenerateIdle /\ OllamaIdle
    /\ EmbeddingIdle /\ MergeIdle /\ OpsIdle

NextCache ==
    \/ \E key \in CacheRequestKeys : GetOp(key)
    \/ \E key \in CacheRequestKeys, response \in CacheResponses(now) :
           SetOp(key, response)
    \/ ClearOp
    \/ Tick

SpecCache == InitCache /\ [][NextCache]_vars

\* an OllamaService from its construction on, serving two calls of
\* generate_response one after the other
InitOllama ==
    /\ ServiceInit
    /\ config \in {c \in Configs : c.batch_size = 1 /\ c \in BatchConfigs
                                   /\ c.enable_llm}
    /\ cache = <<>>
    /\ max_size \in {1, MaxCacheSize}
    /\ now = 0
    /\ cache_op = NoCacheOp
    /\ cache_enabled \in BOOLEAN
    /\ hebrew_classifications \in ClassificationFiles
    /\ request_count = 0
    /\ ocalls = [i \in OllamaCalls |-> IdleCall]
    /\ olast = IdleCall
    /\ outdated = {}
    /\ CallIdle /\ BatchIdle /\ SummarizeIdle /\ GenerateIdle
    /\ EmbeddingIdle /\ MergeIdle /\ OpsIdle

NextOllama ==
    \/ \E i \in OllamaCalls, prompt \in OllamaPrompts : OllamaStart(i, prompt)
    \/ \E i \in OllamaCalls, reply \in HttpReplies : OllamaReply(i, reply)
    \/ \E i \in OllamaCalls, reply \in HttpReplies : OllamaFallbackReply(i, reply)
    \/ \E file \in ClassificationFiles : ReloadClassifications(file)
    \/ Tick

SpecOllama == InitOllama /\ [][NextOllama]_vars

\* an EmbeddingService from its construction on
InitEmbedding ==
    /\ ServiceInit
    /\ config \in {c \in Configs : c.batch_size = 1 /\ c \in BatchConfigs
                                   /\ c.enable_llm}
    /\ cache_embeddings \in BOOLEAN
    /\ model_loaded = FALSE
    /\ embedding_cache = <<>>
    /\ faiss_index = NoIndex
    /\ indexed_texts = <<>>
    /\ index_metadata = <<>>
    /\ elast = NoBatch
    /\ CallIdle /\ BatchIdle /\ SummarizeIdle /\ GenerateIdle
    /\ CacheIdle /\ OllamaIdle /\ MergeIdle /\ OpsIdle

NextEmbedding ==
    \/ \E load_ok \in LoadOutcomes(model_loaded) : InitializeModel(load_ok)
    \/ \E texts \in TextLists, load_ok \in LoadOutcomes(model_loaded),
          fail_at \in FailAts :
           GenerateBatchEmbeddings(texts, load_ok, fail_at)

SpecEmbedding == InitEmbedding /\ [][NextEmbedding]_vars

\* the similarity index of an EmbeddingService from its construction on
NextIndex ==
    \/ \E load_ok \in LoadOutcomes(model_loaded) : InitializeModel(load_ok)
    \/ \E texts \in TextLists, load_ok \in LoadOutcomes(model_loaded),
          fail_at \in FailAts :
           \E metadata \in MetadataArgs(texts) :
               AddToIndex(texts, metadata, load_ok, fail_at)
    \/ \E file \in IndexFiles : LoadIndex(file)

SpecIndex == InitEmbedding /\ [][NextIndex]_vars

\* one call of _merge_search_results with any two lists of hits
InitMerge ==
    /\ \E n \in 0..MaxResults :
         \E hits \in [1..n -> Hits] :
           \E from_vector \in 0..n :
               /\ vector_results =
                      [i \in 1..from_vector |-> VectorHit(hits[i])]
               /\ faiss_results =
                      [i \in 1..(n - from_vector) |->
                          FaissHit(hits[from_vector + i])]
    /\ merged = <<>>
    /\ mpc = "called"
    /\ ServiceInit
    /\ config \in {c \in Configs : c.batch_size = 1 /\ c \in BatchConfigs
                                   /\ c.enable_llm}
    /\ CallIdle /\ BatchIdle /\ SummarizeIdle /\ GenerateIdle
    /\ CacheIdle /\ OllamaIdle /\ EmbeddingIdle /\ OpsIdle

NextMerge == MergeSearchResults

SpecMerge == InitMerge /\ [][NextMerge]_vars

\* one intelligent_search
InitSearch ==
    /\ ServiceInit
    /\ config \in {c \in Configs : c.batch_size = 1 /\ c.enable_llm}
    /\ isearch \in {SearchCalled(include_similar, context_is_dict) :
                       include_similar \in BOOLEAN, context_is_dict \in BOOLEAN}
    /\ CallIdle /\ BatchIdle /\ SummarizeIdle /\ GenerateIdle
    /\ CacheIdle /\ OllamaIdle /\ EmbeddingIdle /\ MergeIdle
    /\ OpsOff({"isearch"})

NextSearch ==
    \/ \E embedded \in BOOLEAN : SearchEmbedding(embedded)
    \/ \E ok \in BOOLEAN, hits \in VectorAnswers : SearchVector(ok, hits)
    \/ \E ok \in BOOLEAN, hits \in FaissAnswers : SearchFaiss(ok, hits)

SpecSearch == InitSearch /\ [][NextSearch]_vars

\* one health_check of the pipeline
InitHealth ==
    /\ ServiceInit
    /\ config \in {c \in Configs : c.batch_size = 1}
    /\ health = HealthCalled
    /\ cache_embeddings = TRUE
    /\ model_loaded \in BOOLEAN
    /\ embedding_cache = <<>>
    /\ faiss_index = IF model_loaded THEN EmptyIndex ELSE NoIndex
    /\ indexed_texts = <<>>
    /\ index_metadata = <<>>
    /\ elast = NoBatch
    /\ CallIdle /\ BatchIdle /\ SummarizeIdle /\ GenerateIdle
    /\ CacheIdle /\ OllamaIdle /\ MergeIdle
    /\ OpsOff({"health"})

NextHealth ==
    \/ \E load_ok \in BOOLEAN : HealthEmbeddings(load_ok)
    \/ \E ollama \in OllamaHealths : HealthLLM(ollama)
    \/ \E weaviate_health \in BOOLEAN : HealthVector(weaviate_health)

SpecHealth == InitHealth /\ [][NextHealth]_vars

\* create_schema called by several coroutines of one event loop
InitSchema ==
    /\ ServiceInit
    /\ config \in {c \in Configs : c.batch_size = 1 /\ c \in BatchConfigs
                                   /\ c.enable_llm}
    /\ schema \in {[pc |-> "on", exists |-> exists, created |-> 0,
                    calls |-> [i \in SchemaCallers |-> SchemaCall]] :
                       exists \in BOOLEAN}
    /\ CallIdle /\ BatchIdle /\ SummarizeIdle /\ GenerateIdle
    /\ CacheIdle /\ OllamaIdle /\ EmbeddingIdle /\ MergeIdle
    /\ OpsOff({"schema"})

NextSchema ==
    \/ \E i \in SchemaCallers, answered \in BOOLEAN : SchemaGet(i, answered)
    \/ \E i \in SchemaCallers, answered \in BOOLEAN : SchemaPost(i, answered)

SpecSchema == InitSchema /\ [][NextSchema]_vars

\* one add_transcription, from its create_schema on
InitInsert ==
    /\ ServiceInit
    /\ config \in {c \in Configs : c.batch_size = 1 /\ c \in BatchConfigs
                                   /\ c.enable_llm}
    /\ insert \in {InsertCalled(data_is_dict) : data_is_dict \in BOOLEAN}
    /\ schema \in {[pc |-> "on", exists |-> exists, created |-> 0,
                    calls |-> [i \in SchemaCallers |-> SchemaCall]] :
                       exists \in BOOLEAN}
    /\ CallIdle /\ BatchIdle /\ SummarizeIdle /\ GenerateIdle
    /\ CacheIdle /\ OllamaIdle /\ EmbeddingIdle /\ MergeIdle
    /\ OpsOff({"insert", "schema"})

NextInsert ==
    \/ \E answered \in BOOLEAN : SchemaGet(1, answered)
    \/ \E answered \in BOOLEAN : SchemaPost(1, answered)
    \/ InsertStart
    \/ \E reply \in InsertReplies : InsertPost(reply)
    \/ InsertSleep

SpecInsert == InitInsert /\ [][NextInsert]_vars

\* the adaptive timeout of one prompt
InitTimeout ==
    /\ ServiceInit
    /\ config \in {c \in Configs : c.batch_size = 1 /\ c \in BatchConfigs
                                   /\ c.enable_llm}
    /\ adaptive \in [pc : {"called"}, prompt : TimeoutPrompts,
                     base_timeout : BaseTimeouts, complexity_score : {0},
                     timeout : {0}]
    /\ CallIdle /\ BatchIdle /\ SummarizeIdle /\ GenerateIdle
    /\ CacheIdle /\ OllamaIdle /\ EmbeddingIdle /\ MergeIdle
    /\ OpsOff({"adaptive"})

NextTimeout == AdaptiveTimeout

SpecTimeout == InitTimeout /\ [][NextTimeout]_vars

\* the generate requests of one process, each in its event loop
InitSemaphore ==
    /\ ServiceInit
    /\ config \in {c \in Configs : c.batch_size = 1 /\ c \in BatchConfigs
                                   /\ c.enable_llm}
    /\ \E max_concurrent \in 1..MaxConcurrent,
          loops \in [SemRequests -> EventLoops],
          adapter \in {"ollama", "huggingface"} :
           sem = [pc |-> "on", backend |-> adapter,
                  max_concurrent |-> max_concurrent,
                  semaphores |-> IF adapter = "huggingface"
                                 THEN Put(EmptyDict, "instance", max_concurrent)
                                 ELSE EmptyDict,
                  requests |-> [r \in SemRequests |->
                                   [loop |-> loops[r], pc |-> "called"]],
                  resumed |-> FALSE, timed_out |-> FALSE]
    /\ CallIdle /\ BatchIdle /\ SummarizeIdle /\ GenerateIdle
    /\ CacheIdle /\ OllamaIdle /\ EmbeddingIdle /\ MergeIdle
    /\ OpsOff({"sem"})

NextSemaphore ==
    \/ \E r \in SemRequests, suspends \in BOOLEAN : SemEnter(r, suspends)
    \/ \E r \in SemRequests : SemResume(r)
    \/ \E r \in SemRequests, ending \in SemOutcomes : SemExit(r, ending)

SpecSemaphore == InitSemaphore /\ [][NextSemaphore]_vars

\* every request that was sent ends, by the timeout of its POST at the
\* latest, and the loop runs a suspended acquire whose semaphore is free
SemaphoreFairness ==
    \A r \in SemRequests :
        /\ WF_vars(\E ending \in SemOutcomes : SemExit(r, ending))
        /\ WF_vars(SemResume(r))

SpecSemaphoreFair == SpecSemaphore /\ SemaphoreFairness

\* calls of the remote adapter's generate_response
InitHF ==
    /\ ServiceInit
    /\ config \in {c \in Configs : c.batch_size = 1 /\ c \in BatchConfigs
                                   /\ c.enable_llm}
    /\ \E prompt \in HFPrompts, system_prompt \in HFSystemPrompts,
          max_tokens \in MaxTokensArgs, temperature \in TemperatureArgs :
           hf = [pc |-> "called", prompt |-> prompt,
                 system_prompt |-> system_prompt, max_tokens |-> max_tokens,
                 temperature |-> temperature, has_hebrew |-> FALSE,
                 parameters |-> Parameters(FALSE, 0, 0)]
    /\ CallIdle /\ BatchIdle /\ SummarizeIdle /\ GenerateIdle
    /\ CacheIdle /\ OllamaIdle /\ EmbeddingIdle /\ MergeIdle
    /\ OpsOff({"hf"})

NextHF ==
    \/ HFPayload
    \/ HFCall

SpecHF == InitHF /\ [][NextHF]_vars

\* outputs passed to _validate_and_clean_response
InitClean ==
    /\ ServiceInit
    /\ config \in {c \in Configs : c.batch_size = 1 /\ c \in BatchConfigs
                                   /\ c.enable_llm}
    /\ \E words \in Outputs :
           cleaned = [pc |-> "called", words |-> words, returned |-> <<>>]
    /\ CallIdle /\ BatchIdle /\ SummarizeIdle /\ GenerateIdle
    /\ CacheIdle /\ OllamaIdle /\ EmbeddingIdle /\ MergeIdle
    /\ OpsOff({"cleaned"})

NextClean ==
    \/ CleanResponse
    \/ CleanNext

SpecClean == InitClean /\ [][NextClean]_vars

\* generate_response called by several coroutines of one event loop, with
\* room in the cache for every key and no time passing
InitRace ==
    /\ ServiceInit
    /\ config \in {c \in Configs : c.batch_size = 1 /\ c \in BatchConfigs
                                   /\ c.enable_llm}
    /\ cache = <<>>
    /\ max_size = MaxCacheSize
    /\ now = 0
    /\ cache_op = NoCacheOp
    /\ cache_enabled \in BOOLEAN
    /\ hebrew_classifications = <<>>
    /\ request_count = 0
    /\ ocalls = <<>>
    /\ olast = IdleCall
    /\ outdated = {}
    /\ \E max_concurrent \in 1..MaxConcurrent :
           racers = [pc |-> "on", permits |-> max_concurrent,
                     calls |-> [i \in Racers |-> RaceCall]]
    /\ CallIdle /\ BatchIdle /\ SummarizeIdle /\ GenerateIdle
    /\ EmbeddingIdle /\ MergeIdle
    /\ OpsOff({"racers"})

NextRace ==
    \/ \E i \in Racers, prompt \in OllamaPrompts : RaceStart(i, prompt)
    \/ \E i \in Racers : RaceAcquire(i)
    \/ \E i \in Racers, reply \in RaceReplies : RaceReply(i, reply)
    \/ \E i \in Racers, reply \in RaceReplies : RaceFallbackReply(i, reply)

SpecRace == InitRace /\ [][NextRace]_vars

\* intelligent_search after its query embedding, asked for one customer
\* (or with no customerId in the context) over stores of several customers
InitTenant ==
    /\ ServiceInit
    /\ config \in {c \in Configs : c.batch_size = 1 /\ c.enable_llm}
    /\ \E customer_id \in Customers \cup {NoCustomer},
          stored \in RecordLists, indexed \in RecordLists :
           tenant = [pc |-> "vector", customer_id |-> customer_id,
                     stored |-> stored, indexed |-> indexed,
                     vector_results |-> <<>>, faiss_results |-> <<>>,
                     results |-> <<>>]
    /\ CallIdle /\ BatchIdle /\ SummarizeIdle /\ GenerateIdle
    /\ CacheIdle /\ OllamaIdle /\ EmbeddingIdle /\ MergeIdle
    /\ OpsOff({"tenant"})

NextTenant ==
    \/ \E ok \in BOOLEAN : TenantVector(ok)
    \/ \E ok \in BOOLEAN : TenantFaiss(ok)

SpecTenant == InitTenant /\ [][NextTenant]_vars

\* an EmbeddingService whose model is not loaded, and the calls that need it
InitLoader ==
    /\ ServiceInit
    /\ config \in {c \in Configs : c.batch_size = 1 /\ c \in BatchConfigs
                                   /\ c.enable_llm}
    /\ \E loops \in [LoaderCalls -> EventLoops],
          kinds \in [LoaderCalls -> LoaderKinds] :
           loader = [pc |-> "on", model_loaded |-> FALSE, model |-> FALSE,
                     loading |-> FALSE, current |-> 0, succeeded |-> FALSE,
                     calls |-> [c \in LoaderCalls |->
                                   LoaderCall(loops[c], kinds[c])]]
    /\ CallIdle /\ BatchIdle /\ SummarizeIdle /\ GenerateIdle
    /\ CacheIdle /\ OllamaIdle /\ EmbeddingIdle /\ MergeIdle
    /\ OpsOff({"loader"})

NextLoader ==
    \/ \E c \in LoaderCalls : LoaderCheck(c)
    \/ \E c \in LoaderCalls : LoaderClaim(c)
    \/ \E c \in LoaderCalls, load_ok \in BOOLEAN : LoaderLoad(c, load_ok)
    \/ \E c \in LoaderCalls : LoaderPublish(c)
    \/ \E c \in LoaderCalls : LoaderPoll(c)

SpecLoader == InitLoader /\ [][NextLoader]_vars

(***************************************************************************)
(* Properties of process_call (Spec)                                       *)
(***************************************************************************)
Range(seq) == {seq[i] : i \in 1..Len(seq)}
StagesIn(state) == {st \in StageNames : stages[st] = state}
WriteIssued == pc = "vector_write" \/ DOMAIN vector_data # {}
Resolved(t) == tasks[t].state \in {"absent", "done"}

\* C1: whenever the vector-store write of a call has been issued, the
\* embedding coroutine and the LLM-analysis coroutine of that call have both
\* resolved, whatever the order in which they ran and whether they failed.
C1_WriteAfterJoin == WriteIssued => \A t \in TaskNames : Resolved(t)

\* both coroutines ran, one failed and one succeeded, and the write is out
C1_Witness ==
    /\ pc = "vector_write"
    /\ \A t \in TaskNames : tasks[t].state = "done"
    /\ stages["embedding"] = "failed"
    /\ stages["llm_analysis"] = "ok"

\* C2: with a non-empty transcription no failure halts process_call: a call
\* that has not returned can always take a step, and the call that returned
\* holds one error for each stage that failed, has attempted the vector
\* write when vector storage is enabled, and has run the product analysis.
C2_FailuresRecordedStagesAttempted ==
    (call_data.kind = "dict" /\ HasText(call_data)) =>
        /\ pc # "completed" => ENABLED Next
        /\ pc = "completed" =>
            /\ stages["embedding"] = "failed" =>
                   "Embedding generation failed" \in Range(errors)
            /\ stages["llm_analysis"] = "failed" =>
                   \/ "LLM analysis failed" \in Range(errors)
                   \/ "LLM processing failed" \in Range(errors)
            /\ stages["vector_storage"] = "failed" =>
                   "Vector storage failed" \in Range(errors)
            /\ Len(errors) = Cardinality(StagesIn("failed"))
            /\ outcome.errors = errors
            /\ config.enable_vector_storage =>
                   stages["vector_storage"] \in {"ok", "failed"}
            /\ stages["product_analysis"] = "ok"
            /\ "product_analysis" \in DOMAIN outcome.results

\* embedding, LLM analysis and the vector write all failed, and the product
\* analysis still ran
C2_Witness ==
    /\ pc = "completed"
    /\ StagesIn("failed") = {"embedding", "llm_analysis", "vector_storage"}
    /\ stages["product_analysis"] = "ok"

\* C3: the returned success flag is true exactly when no stage failed or
\* more stages succeeded than failed.
C3_SuccessIffMoreSucceeded ==
    pc = "completed" =>
        (outcome.success <=>
            \/ StagesIn("failed") = {}
            \/ Cardinality(StagesIn("ok")) > Cardinality(StagesIn("failed")))

\* C4: when only the embedding fails while the LLM analysis and the vector
\* write succeed, the result has success = true and exactly one error.
C4_EmbeddingFailureAlone ==
    (/\ pc = "completed"
     /\ stages["embedding"] = "failed"
     /\ stages["llm_analysis"] = "ok"
     /\ stages["vector_storage"] = "ok") =>
        /\ outcome.success = TRUE
        /\ Len(outcome.errors) = 1

C4_Witness ==
    /\ pc = "completed"
    /\ stages["embedding"] = "failed"
    /\ stages["llm_analysis"] = "ok"
    /\ stages["vector_storage"] = "ok"
    /\ outcome.errors = <<"Embedding generation failed">>

\* C5: when the LLM analysis produced no summary (it failed or is disabled),
\* the record handed to the vector store has a null sentiment and empty
\* productsMentioned and keyPoints.
C5_NoPlaceholderInRecord ==
    (DOMAIN vector_data # {} /\ stages["llm_analysis"] # "ok") =>
        /\ vector_data.sentiment = NULL
        /\ vector_data.productsMentioned = <<>>
        /\ vector_data.keyPoints = <<>>

(***************************************************************************)
(* Properties of process_batch (SpecBatch)                                 *)
(***************************************************************************)
InFlight == {i \in DOMAIN btasks : btasks[i] = "running"}

\* C6: process_batch does not raise; it returns one ProcessingResult per
\* call, in the order of the calls, a failed one for a call whose
\* process_call raised and the result of process_call for every other call.
C6_BatchNeverRaises ==
    bpc = "returned" =>
        /\ boutcome.kind = "return"
        /\ Len(boutcome.value) = Len(calls_data)
        /\ \A i \in 1..Len(calls_data) :
            IF bresults[i].kind = "raise"
            THEN boutcome.value[i].success = FALSE
            ELSE boutcome.value[i] = bresults[i]

\* C7: at every moment of a process_batch the number of process_call
\* invocations in flight is at most config.batch_size.
C7_InFlightAtMostBatchSize == Cardinality(InFlight) <= config.batch_size

\* the cap is reached while another call is waiting for the semaphore
C7_Witness ==
    /\ Cardinality(InFlight) = config.batch_size
    /\ \E i \in DOMAIN btasks : btasks[i] = "waiting"

(***************************************************************************)
(* Properties of LLMOrchestrator.summarize_call (SpecSummarize)            *)
(***************************************************************************)
\* C8: summarize_call never ends in an exception: it returns a dict that
\* carries a summary when success is true and a fallback_summary otherwise.
C8_SummarizeNeverRaises ==
    spc = "done" =>
        /\ soutcome.kind = "return"
        /\ IF soutcome.value.success
           THEN "summary" \in DOMAIN soutcome.value
           ELSE "fallback_summary" \in DOMAIN soutcome.value

\* C9: when the backend cannot be reached, summarize_call returns
\* success = false and a fallback_summary whose summary is the transcription
\* itself up to 200 characters, and its first 200 characters followed by an
\* ellipsis otherwise.
C9_FallbackWhenUnavailable ==
    (spc = "done" /\ ~backend.up) =>
        /\ soutcome.kind = "return"
        /\ soutcome.value.success = FALSE
        /\ LET t == srequest.transcription
               text == soutcome.value.fallback_summary.summary
           IN  IF Len(t) <= FallbackChars
               THEN text = t
               ELSE /\ Len(text) = FallbackChars + Len(Ellipsis)
                    /\ \A i \in 1..FallbackChars : text[i] = t[i]
                    /\ \A i \in 1..Len(Ellipsis) : text[FallbackChars + i] = Ellipsis[i]

(***************************************************************************)
(* Properties of LLMOrchestrator.generate_response (SpecGenerate)          *)
(***************************************************************************)
\* C10: generate_response never raises; at most one adapter call is in
\* flight at any time; a success carries the content and the name of the
\* adapter that answered, every adapter tried before it having left one
\* error; a failure carries exactly one error per attempted adapter, in the
\* order of the attempts.
C10_GenerateContract ==
    /\ goutcome.kind # "raise"
    /\ Cardinality(gactive) <= 1
    /\ gpc = "done" =>
        /\ goutcome.kind = "return"
        /\ gactive = {}
        /\ IF goutcome.value.success
           THEN /\ "content" \in DOMAIN goutcome.value
                /\ goutcome.value.service = gattempts[Len(gattempts)]
                /\ Len(gerrors) = Len(gattempts) - 1
           ELSE /\ Len(goutcome.value.errors) = Len(gattempts)
                /\ \A i \in 1..Len(gattempts) :
                       goutcome.value.errors[i].service = gattempts[i]
                /\ Len(gattempts) >= 1

\* the adapter timed out or raised and the failure was returned
C10_Witness ==
    /\ gpc = "done"
    /\ goutcome.kind = "return"
    /\ goutcome.value.success = FALSE
    /\ Len(goutcome.value.errors) = 1
    /\ goutcome.value.errors[1].service = "ollama"

\* C11: a prompt with a character in U+0590..U+05FF is answered by the
\* Hebrew-tuned model, and a prompt without one is answered by another model.
C11_HebrewRouting ==
    (gpc = "done" /\ goutcome.kind = "return" /\ goutcome.value.success) =>
        IF HasHebrew(grequest.prompt)
        THEN goutcome.value.model = HebrewModel
        ELSE goutcome.value.model # HebrewModel

(***************************************************************************)
(* Properties of InferenceCache (SpecCache)                                *)
(***************************************************************************)
Distinct(seq) == \A i, j \in 1..Len(seq) : seq[i] = seq[j] => i = j
Others(c, key) == {c[i] : i \in {n \in 1..Len(c) : c[n].key # key}}

\* C12: with max_size >= 1, after any sequence of get, set and clear the
\* cache holds at most max_size entries (one per key).
C12_SizeAtMostMax ==
    /\ Len(cache) <= max_size
    /\ Distinct([i \in 1..Len(cache) |-> cache[i].key])

\* the largest cache is full after a set that followed evictions or removals
C12_Witness ==
    /\ cache_op.op = "set"
    /\ max_size = MaxCacheSize
    /\ Len(cache) = max_size
    /\ ~cache_op.run.ok

\* C13: max_size + 1 distinct keys set into an empty cache leave max_size
\* entries, all the keys but the first; and every set at capacity removes
\* exactly one entry, one with the least timestamp, before it stores its own.
C13_EvictsOldest ==
    /\ [](  (/\ cache_op.op = "set"
             /\ cache_op.run.ok
             /\ Len(cache_op.run.keys) = max_size + 1
             /\ Distinct(cache_op.run.keys))
          => /\ Len(cache) = max_size
             /\ cache_op.run.keys[1] \notin CacheKeys(cache)
             /\ \A i \in 2..(max_size + 1) :
                    cache_op.run.keys[i] \in CacheKeys(cache))
    /\ [][\A key \in CacheRequestKeys, response \in CacheResponses(now) :
            (SetOp(key, response) /\ Len(cache) >= max_size) =>
                /\ \E i \in 1..Len(cache) :
                      /\ \A j \in 1..Len(cache) :
                             cache[i].timestamp <= cache[j].timestamp
                      /\ Others(cache', key) = Others(Remove(cache, i), key)
                /\ [key |-> key, response |-> response, timestamp |-> now]
                       \in Range(cache')]_vars

\* max_size + 1 distinct keys have been set into the largest empty cache
C13_Witness ==
    /\ cache_op.op = "set"
    /\ max_size = MaxCacheSize
    /\ cache_op.run.ok
    /\ Len(cache_op.run.keys) = max_size + 1
    /\ Distinct(cache_op.run.keys)

\* C14: get returns an entry only when its age is below the TTL; a lookup of
\* an entry of age TTL or more returns None and deletes that entry; a lookup
\* leaves the entries of all other keys, expired or not, where they are.
C14_GetNeverStale ==
    [][\A key \in CacheRequestKeys :
         GetOp(key) =>
            LET i == KeyIndex(cache, key)
            IN  /\ cache_op'.response # NoResponse =>
                    /\ i # 0
                    /\ now - cache[i].timestamp < TTL
                    /\ cache_op'.response = cache[i].response
                /\ (i # 0 /\ now - cache[i].timestamp >= TTL) =>
                    /\ cache_op'.response = NoResponse
                    /\ key \notin CacheKeys(cache')
                /\ Others(cache', key) = Others(cache, key)]_vars

\* a lookup found its entry expired while another expired entry stays stored
C14_Witness ==
    /\ cache_op.op = "get"
    /\ cache_op.found = "expired"
    /\ cache_op.key \notin CacheKeys(cache)
    /\ \E i \in 1..Len(cache) : now - cache[i].timestamp >= TTL

(***************************************************************************)
(* Properties of OllamaService.generate_response (SpecOllama)              *)
(***************************************************************************)
Raised(call) == call.state = "done" /\ call.outcome.kind = "raise"
CacheHit(call) ==
    call.state = "done" /\ call.outcome.kind = "return" /\ call.outcome.cached

\* C15: a call answered from the cache returns the content of the first
\* answer with processing_time 0 and the time of retrieval as timestamp, in
\* an object that is none of the objects held by the cache.
C15_HitReturnsFreshCopy ==
    CacheHit(olast) =>
        /\ olast.outcome.response.content = [answer_to |-> olast.prompt]
        /\ olast.outcome.response.processing_time = 0
        /\ olast.outcome.response.timestamp = olast.start_time
        /\ \A n \in 1..Len(cache) :
               cache[n].response.id # olast.outcome.response.id

\* C16 as stated: a call that ends in failure has changed nothing in the
\* cache.
C16_FailureLeavesCacheUnchanged ==
    Raised(olast) => ~olast.stored /\ ~olast.removed

\* C16: a call that ends in failure has stored nothing; the steps of a
\* failure leave the cache as it is, and the lookup that precedes them
\* changes the cache only by deleting the expired entry of its own key.
C16_FailureStoresNothing ==
    /\ [](Raised(olast) => ~olast.stored)
    /\ [][/\ \A i \in OllamaCalls, reply \in HttpReplies \ {"200"} :
               OllamaReply(i, reply) => cache' = cache
          /\ \A i \in OllamaCalls, reply \in HttpReplies :
               OllamaFallbackReply(i, reply) => cache' = cache
          /\ \A i \in OllamaCalls, prompt \in OllamaPrompts :
               OllamaStart(i, prompt) =>
                  LET key == RequestKey(prompt,
                        ClassificationsAvailable(hebrew_classifications))
                      n   == KeyIndex(cache, key)
                  IN  \/ cache' = cache
                      \/ /\ n # 0
                         /\ now - cache[n].timestamp >= TTL
                         /\ cache' = Remove(cache, n)]_vars

\* a call failed after its lookup had deleted the expired entry of its key
C16_Witness ==
    /\ Raised(olast)
    /\ olast.removed
    /\ ~olast.stored
    /\ cache_enabled

\* C17 as stated: no response that was in the cache when a reload changed
\* the availability of the classifications is served afterwards.
C17_NeverServedAfterChange ==
    CacheHit(olast) => ~olast.served_outdated

\* C17: a response is served from the cache only to a lookup made under
\* the availability it was stored under; after a reload changed the
\* availability an identical request misses the entries stored under the
\* other availability and reaches the backend.
C17_ServedUnderSameAvailability ==
    /\ [](CacheHit(olast) =>
             olast.outcome.response.stored_under = olast.flag)
    /\ [][\A i \in OllamaCalls, prompt \in OllamaPrompts :
            (OllamaStart(i, prompt) /\ cache_enabled) =>
               LET flag == ClassificationsAvailable(hebrew_classifications)
                   key  == GetCacheKey(prompt, HebrewModel, 1, 1, flag)
                   n    == KeyIndex(cache, key)
               IN  ocalls'[i].state = "awaiting"
                      <=> (n = 0 \/ now - cache[n].timestamp >= TTL)]_vars

\* the second call is on its way to the backend although a fresh answer to
\* the same prompt is stored under the other availability
C17_Witness ==
    /\ ocalls[2].state = "awaiting"
    /\ \E n \in 1..Len(cache) :
          /\ cache[n].key.prompt = ocalls[2].prompt
          /\ cache[n].key.classifications_available # ocalls[2].flag
          /\ cache[n].timestamp <= ocalls[2].start_time
          /\ Fresh(cache[n].timestamp, ocalls[2].start_time)
          /\ cache[n].response.id \in outdated

(***************************************************************************)
(* Properties of EmbeddingService (SpecEmbedding, SpecIndex)               *)
(***************************************************************************)
\* C18: generate_batch_embeddings returns one result per input text, the
\* i-th result being the result for the i-th text, also when texts repeat
\* and when some are cached.
C18_BatchResultsInInputOrder ==
    elast.kind = "return" =>
        /\ Len(elast.results) = Len(elast.texts)
        /\ \A i \in 1..Len(elast.texts) :
               elast.results[i].text = elast.texts[i]

\* C19: the index holds as many vectors as texts and metadata entries, and
\* at every position the vector, the text and the metadata are those of one
\* added item.
C19_IndexAligned ==
    /\ Len(faiss_index.vectors) = Len(indexed_texts)
    /\ Len(index_metadata) = Len(indexed_texts)
    /\ \A i \in 1..Len(indexed_texts) :
           /\ faiss_index.vectors[i] = Embedding(indexed_texts[i])
           /\ index_metadata[i]
                  \in {EmptyMetadata, [about |-> indexed_texts[i]]}

(***************************************************************************)
(* Properties of _merge_search_results (SpecMerge)                         *)
(***************************************************************************)
KeyOf(entry) ==
    DedupKey(entry, IF entry.search_source = "vector"
                    THEN "transcriptionText" ELSE "text")
Untagged(entry) ==
    [field \in DOMAIN entry \ {"search_source", "rank_score"} |-> entry[field]]
SharedKeys ==
    ({DedupKey(vector_results[v], "transcriptionText") :
         v \in 1..Len(vector_results)}
     \cap {DedupKey(faiss_results[f], "text") : f \in 1..Len(faiss_results)})
    \ {<<>>}

\* C20: the returned list has at most one entry per dedup key (the callId,
\* or the first 50 characters of the text when there is no callId); a key
\* that occurs in both sources is kept as the vector-store hit, tagged
\* search_source = vector with rank_score equal to its own similarity
\* score; and the list is sorted by rank_score, highest first.
C20_MergedDedupedVectorFirstSorted ==
    mpc = "returned" =>
        /\ \A i, j \in 1..Len(merged) :
               KeyOf(merged[i]) = KeyOf(merged[j]) => i = j
        /\ \A key \in SharedKeys :
               \E i \in 1..Len(merged) :
                   /\ KeyOf(merged[i]) = key
                   /\ merged[i].search_source = "vector"
                   /\ merged[i].rank_score = merged[i].similarity_score
                   /\ \E v \in 1..Len(vector_results) :
                          Untagged(merged[i]) = vector_results[v]
        /\ \A i, j \in 1..Len(merged) :
               i < j => merged[i].rank_score >= merged[j].rank_score

\* a faiss hit whose text differs from a vector hit's only after the 50th
\* character, and scores higher, was dropped in favour of the vector hit,
\* and the returned list holds entries of different scores
C20_Witness ==
    /\ mpc = "returned"
    /\ Len(merged) >= 2
    /\ merged[1].rank_score > merged[Len(merged)].rank_score
    /\ \E v \in 1..Len(vector_results), f \in 1..Len(faiss_results) :
          /\ vector_results[v].callId = <<>>
          /\ faiss_results[f].callId = <<>>
          /\ vector_results[v].transcriptionText # faiss_results[f].text
          /\ Prefix(vector_results[v].transcriptionText)
                 = Prefix(faiss_results[f].text)
          /\ faiss_results[f].similarity_score
                 > vector_results[v].similarity_score
          /\ \E i \in 1..Len(merged) :
                 Untagged(merged[i]) = vector_results[v]

(***************************************************************************)
(* Properties of intelligent_search (SpecSearch)                           *)
(***************************************************************************)
\* C21: when the vector store is enabled and the query embedding or the
\* similarity-index search failed, the semantic search was still attempted
\* and the call returned success with the vector-store hits among its
\* results.
C21_VectorSearchSurvivesFailures ==
    (/\ isearch.pc = "done"
     /\ config.enable_vector_storage
     /\ isearch.embedding = "raised" \/ isearch.faiss = "failed")
    => /\ isearch.vector # "none"
       /\ isearch.outcome.value.success
       /\ \A i \in 1..Len(isearch.search_details["vector_search"]) :
              \E j \in 1..Len(isearch.outcome.value.results) :
                  Untagged(isearch.outcome.value.results[j])
                      = isearch.search_details["vector_search"][i]

(***************************************************************************)
(* Properties of health_check (SpecHealth)                                 *)
(***************************************************************************)
\* C22: with the enabled sub-components being embeddings, LLM and vector
\* store, pipeline_status is healthy exactly when each of them reported
\* healthy, degraded when some but not all did, unhealthy when none did.
C22_StatusAggregatesEnabled ==
    health.pc = "done" =>
        LET enabled == DOMAIN health.reports
            healthy == {name \in enabled : health.reports[name]}
        IN  /\ health.pipeline_status = "healthy" <=> healthy = enabled
            /\ (healthy # {} /\ healthy # enabled)
                   => health.pipeline_status = "degraded"
            /\ (healthy = {} /\ enabled # {})
                   => health.pipeline_status = "unhealthy"

(***************************************************************************)
(* Properties of create_schema (SpecSchema)                                *)
(***************************************************************************)
\* C23: a create_schema call whose requests were answered, and that
\* finishes while the schema exists, has returned True and logged no
\* failure; and the create request succeeded at most once.
C23_CreateSchemaIdempotent ==
    schema.pc = "on" =>
        /\ schema.created <= 1
        /\ \A i \in SchemaCallers :
               (/\ schema.calls[i].pc = "done"
                /\ schema.calls[i].error # "exception"
                /\ schema.exists)
               => /\ schema.calls[i].returned = "True"
                  /\ schema.calls[i].error = "none"

(***************************************************************************)
(* Properties of add_transcription (SpecInsert)                            *)
(***************************************************************************)
InsertRequests == SelectSeq(insert.trace, LAMBDA event : event \in InsertReplies)

C25_PermanentErrorNotRetried ==
    (/\ insert.pc = "done"
     /\ InsertRequests # <<>>
     /\ InsertRequests[1] = "status_error")
    => /\ Len(InsertRequests) = 1
       /\ insert.returned = "False"

(***************************************************************************)
(* Properties of the adaptive timeout (SpecTimeout)                        *)
(***************************************************************************)
KeywordClasses(prompt) ==
    LET prompt_clean == PromptClean(prompt)
    IN  {class \in {"greeting", "count", "list", "analysis"} :
            AnyIn(CASE class = "greeting" -> GreetingPatterns
                    [] class = "count" -> SimplePatterns
                    [] class = "list" -> MediumKeywords
                    [] class = "analysis" -> ComplexKeywords,
                  prompt_clean)}
TierTenths(class) ==
    CASE class = "greeting" -> 10
      [] class = "count" -> 15
      [] class = "list" -> 20
      [] class = "analysis" -> 25

\* C28: for a prompt that contains keywords of exactly one class, the
\* timeout is the base timeout times 1.0 (greeting), 1.5 (count), 2.0
\* (list) or 2.5 (analysis), truncated to an integer.
C28_TimeoutByKeywordTier ==
    adaptive.pc = "done" =>
        \A class \in KeywordClasses(adaptive.prompt) :
            KeywordClasses(adaptive.prompt) = {class}
            => adaptive.timeout
                   = (adaptive.base_timeout * TierTenths(class)) \div 10

\* C39: a prompt that contains an analytical or summarization keyword gets
\* the highest score, 2.5, whichever keywords of the count, greeting and
\* list classes it contains as well, and never a lower score than a prompt
\* without such a keyword.
C39_AnalysisKeywordScoresHighest ==
    (/\ adaptive.pc = "done"
     /\ "analysis" \in KeywordClasses(adaptive.prompt))
    => /\ adaptive.complexity_score = 25
       /\ \A other \in TimeoutPrompts :
              "analysis" \notin KeywordClasses(other)
              => adaptive.complexity_score >= AnalyzeQueryComplexity(other)

(***************************************************************************)
(* Properties of the orchestrator's statistics and timeout (SpecGenerate)  *)
(***************************************************************************)
Counters ==
    {"ollama_requests", "bedrock_requests", "fallback_triggers",
     "total_errors", "fast_responses", "slow_responses"}

\* C26: every get_stats call returns the counters, before any request as
\* well, and no step decreases a counter.
C26_GetStatsReturnsCounters ==
    /\ [](gstats # NoOutcome =>
             /\ gstats.kind = "return"
             /\ \A counter \in Counters :
                    gstats.value.stats[counter] \in Nat)
    /\ [][\A counter \in Counters : ostats'[counter] >= ostats[counter]]_vars

\* C27: the timeout of the wait_for around the adapter call is the adaptive
\* timeout of the prompt: the base timeout of the backend times the
\* multiplier of the prompt's complexity.
C27_AdaptiveTimeoutApplied ==
    gpc = "awaiting" =>
        gtimeout.applied =
            CalculateAdaptiveTimeout(
                AnalyzeQueryComplexity(grequest.prompt),
                IF gtimeout.env.set THEN gtimeout.env.value
                ELSE DefaultOllamaTimeout)

\* C29: once generate_response has returned, the local adapter's request
\* counter has grown by one for each adapter call attempted, whatever its
\* end, and a successful response has grown exactly one of the fast and
\* slow buckets by one.
C29_EveryAttemptCounted ==
    gpc = "done" =>
        /\ ostats.ollama_requests = Len(gattempts)
        /\ goutcome.value.success
               => ostats.fast_responses + ostats.slow_responses = 1

(***************************************************************************)
(* Properties of the adapter's rate limiting (SpecSemaphore)               *)
(***************************************************************************)
Outstanding == {r \in SemRequests : sem.requests[r].pc = "outstanding"}

\* C30: over all the requests the process is serving, at most
\* max_concurrent generate requests are outstanding at the backend at any
\* moment.
C30_OutstandingAtMostMaxConcurrent ==
    (sem.pc = "on" /\ sem.backend = "ollama") =>
        Cardinality(Outstanding) <= sem.max_concurrent

(***************************************************************************)
(* Properties of the remote adapter's request (SpecHF)                     *)
(***************************************************************************)
\* C31: for a requested max_tokens N >= 1 and a prompt containing Hebrew,
\* the token budget sent is at least N and at least the budget sent for a
\* prompt without Hebrew and the same N.
C31_HebrewBudgetAtLeastRequested ==
    (hf.pc = "sent" /\ hf.max_tokens >= 1 /\ HasHebrew(hf.prompt)) =>
        /\ hf.parameters.max_new_tokens >= hf.max_tokens
        /\ hf.parameters.max_new_tokens >=
               AdjustedMaxTokens(FALSE, hf.max_tokens)

(***************************************************************************)
(* Properties of _validate_and_clean_response (SpecClean)                  *)
(***************************************************************************)
IsPrefix(short, long) ==
    Len(short) <= Len(long) /\ short = SubSeq(long, 1, Len(short))

\* C32: of an output without template markers, more than 20 words long, in
\* which a 3-word phrase occurs more than 5 times, the words returned are a
\* proper prefix of the words given; an output of 20 words or fewer comes
\* back with its words unmodified.
C32_TruncatedToPrefix ==
    (cleaned.pc = "returned" /\ Artifact \notin Range(cleaned.words)) =>
        /\ (Len(cleaned.words) > RepetitionWords
            /\ MaxRepetition(cleaned.words) > RepetitionThreshold) =>
               /\ IsPrefix(cleaned.returned, cleaned.words)
               /\ Len(cleaned.returned) < Len(cleaned.words)
        /\ Len(cleaned.words) <= RepetitionWords =>
               cleaned.returned = cleaned.words

(***************************************************************************)
(* Properties of concurrent generate_response calls (SpecRace)             *)
(***************************************************************************)
\* the calls that sent the request for a prompt's key to the backend
SentFor(prompt) ==
    {i \in Racers : racers.calls[i].sent = 1 /\ racers.calls[i].prompt = prompt}

\* C33: with the cache enabled, of the concurrent calls with one cache key
\* at most one sends a generate request to the backend.
C33_OneRequestPerKey ==
    (racers.pc = "on" /\ cache_enabled) =>
        \A prompt \in OllamaPrompts : Cardinality(SentFor(prompt)) <= 1

(***************************************************************************)
(* Properties of intelligent_search for a customer (SpecTenant)            *)
(***************************************************************************)
\* C34: every hit returned for a customer_context with customerId C is a
\* record of customer C.
C34_OnlyOwnRecords ==
    (tenant.pc = "done" /\ tenant.customer_id # NoCustomer) =>
        \A i \in 1..Len(tenant.results) :
            tenant.results[i].customerId = tenant.customer_id

(***************************************************************************)
(* Properties of the fallback to the default model (SpecOllama)            *)
(***************************************************************************)
\* C35: when the request for the Hebrew model was answered 404 and the one
\* for the default model is answered 200, the call returns the default
\* model's response, marked fallback_used, with the cache enabled or not.
C35_FallbackReturnsDefaultModel ==
    [][\A i \in OllamaCalls :
         OllamaFallbackReply(i, "200") =>
            /\ olast'.outcome.kind = "return"
            /\ olast'.outcome.response.model = DefaultModel
            /\ olast'.outcome.response.fallback_used]_vars

(***************************************************************************)
(* Properties of a set that replaces an entry (SpecCache)                  *)
(***************************************************************************)
\* C36: a set on a key that is already stored leaves the entries of all
\* other keys in the cache and the number of entries unchanged, also in a
\* cache that is at max_size.
C36_ReplaceKeepsOthers ==
    [][\A key \in CacheRequestKeys, response \in CacheResponses(now) :
         (SetOp(key, response) /\ key \in CacheKeys(cache)) =>
            /\ Others(cache', key) = Others(cache, key)
            /\ Len(cache') = Len(cache)]_vars

(***************************************************************************)
(* Properties of the permits (SpecSemaphoreFair)                           *)
(***************************************************************************)
\* the requests that hold a permit of a semaphore
Holders(key) ==
    {r \in SemRequests : sem.requests[r].pc = "outstanding"
                         /\ SemaphoreOf(r) = key}

C38_OneLoadSharedOutcome ==
    loader.pc = "on" =>
        /\ Cardinality({c \in LoaderCalls :
                           loader.calls[c].pc = "loading"}) <= 1
        /\ \A c \in LoaderCalls : ~loader.calls[c].late
        /\ \A c \in LoaderCalls :
               (/\ loader.calls[c].pc = "done"
                /\ loader.calls[c].waited_on # 0
                /\ loader.calls[c].kind = "initialize_model") =>
                   (loader.calls[c].returned = "True"
                       <=> loader.calls[loader.calls[c].waited_on].load
                               = "succeeded")

====
